---- MODULE Spec2Model ----
(***************************************************************************)
(* The evolutionary training engine of CrazySmartCar: GeneticAlgorithm,    *)
(* NoveltyArchive, the parts of NeuralNetwork and Car the engine touches   *)
(* and the Game handlers that drive the engine.                            *)
(*                                                                         *)
(* Numbers.  JavaScript numbers are modelled by integers and by fractions  *)
(* [n, d] with d > 0.  Rates are held in percent.  A novelty score is held *)
(* multiplied by NoveltyScale and a combined score multiplied by           *)
(* CombinedScale, so that the averages and weighted sums of the code stay  *)
(* integers.  Math.random() is a nondeterministic choice.                  *)
(***************************************************************************)
EXTENDS Integers, Sequences, FiniteSets, TLC

VARIABLES
    cfg,      \* the global Config object (the fields the engine reads)
    ga,       \* the GeneticAlgorithm object, its noveltyArchive included
    cars,     \* Game.cars, the current population
    sorted,   \* the local `sorted` of the selection call just made, if any
    elite,    \* the value the selection call just made returned, if any
    rate,     \* the value returned by the last getCurrentMutationRate call
    lastOp,   \* the operation that produced the current state
    clicks,   \* the number of form and button events handled so far
    ret,      \* the arguments and the result of the method call just made
    file,     \* the text of model.json as Game.saveModel last wrote it
    heap,     \* the NeuralNetwork objects and their arrays, by identity
    game      \* the Game object's own fields: the loop's and the track progression's

vars == <<cfg, ga, cars, sorted, elite, rate, lastOp, clicks, ret, file, heap, game>>

---------------------------------------------------------------------------
(* Bounds of the model *)

MaxPop == 2
MaxElitism == 2
MaxGen == 3
MaxClicks == 2
MaxArchive == 2
MaxK == 2
MaxThreshold == 2
MaxStagnation == 6
MaxSize == 2
MaxCheckpoints == 2
MaxFrames == 335

---------------------------------------------------------------------------
(* Program constants *)

Infinity == 1000000
MinElite == 4
TournamentMax == 4
RateCap == 80
HyperRate == 50
BootstrapCount == 10
NoveltyThreshold == 50
FirstNovelty == 1000
CheckpointWeightGA == 100
StuckPeriod == 30
StuckLimit == 10

\* null where a network is expected, and "no call yet" where a rate is
Null == [ref |-> -1, w |-> 0, mutated |-> <<>>]

NoRate == [n |-> -1, d |-> 1]

\* no method call recorded, and no model.json written
NoCall == [op |-> "none"]

NoFile == <<>>

\* the speeds the speed button cycles through
Speeds == <<1, 2, 5, 10, 15>>

\* Game's constructor: not running at speed 1, no animation frame requested,
\* no drawing or start-setting mode, track 1 current and alone unlocked;
\* checkpoints is the length of this.track.checkpoints
NewGame ==
    [running |-> FALSE, speed |-> Speeds[1], pending |-> 0,
     isDrawing |-> FALSE, isSettingStart |-> FALSE,
     currentTrackNumber |-> 1, unlockedTracks |-> <<1>>, lapCompleted |-> FALSE,
     checkpoints |-> MaxCheckpoints]

---------------------------------------------------------------------------
(* Arithmetic helpers *)

Min(a, b) == IF a < b THEN a ELSE b

Max(a, b) == IF a > b THEN a ELSE b

Abs(a) == IF a < 0 THEN -a ELSE a

RECURSIVE SeqSum(_)
SeqSum(s) == IF s = <<>> THEN 0 ELSE Head(s) + SeqSum(Tail(s))

RECURSIVE Factorial(_)
Factorial(n) == IF n <= 1 THEN 1 ELSE n * Factorial(n - 1)

\* Math.sqrt on the perfect squares the model's positions produce
Sqrt(n) == CHOOSE r \in 0..n : r * r = n

\* an array: every element is computed once, when the array is built
Array(f) == SubSeq(f, 1, Len(f))

Rat(n, d) == [n |-> n, d |-> d]

RatLess(a, b) == IF a.d = b.d THEN a.n < b.n ELSE a.n * b.d < b.n * a.d

RatEq(a, b) == IF a.d = b.d THEN a.n = b.n ELSE a.n * b.d = b.n * a.d

\* a novelty score v is held as v * NoveltyScale: distances carry one decimal
\* and the average over k <= MaxK neighbours divides by k
NoveltyScale == 10 * Factorial(MaxK)

\* a combined score v is held as v * CombinedScale
CombinedScale == 100000 * NoveltyScale

RatAdd(a, b) == Rat(a.n * b.d + b.n * a.d, a.d * b.d)

RatMul(a, b) == Rat(a.n * b.n, a.d * b.d)

RatMin(a, b) == IF RatLess(a, b) THEN a ELSE b

---------------------------------------------------------------------------
(* Config: the fields the engine reads, rates in percent *)

DefaultConfig ==
    [genetic  |-> [populationSize |-> MaxPop, mutationRate |-> 1,
                   elitism |-> 1, crossoverRate |-> 0],
     adaptive |-> [enabled |-> FALSE, stagnationThreshold |-> MaxThreshold,
                   mutationBoost |-> 10],
     novelty  |-> [enabled |-> FALSE, weight |-> 0,
                   archiveSize |-> MaxArchive, kNeighbors |-> MaxK],
     sharing  |-> [enabled |-> FALSE, sigma |-> 10]]

\* the form as Config.loadFromUI finds it when nothing was touched
FormDefaults ==
    [genetic  |-> [populationSize |-> MaxPop, mutationRate |-> 15,
                   elitism |-> 1, crossoverRate |-> 0],
     adaptive |-> [enabled |-> FALSE, stagnationThreshold |-> 1,
                   mutationBoost |-> 30],
     novelty  |-> [enabled |-> FALSE, weight |-> 50,
                   archiveSize |-> MaxArchive, kNeighbors |-> 1],
     sharing  |-> [enabled |-> FALSE, sigma |-> 50]]

\* the values Config.loadFromUI can read from the form: every field is read
\* on its own with parseInt and there is no validation across fields
UIChoices ==
    { [FormDefaults EXCEPT !.genetic.elitism = e] : e \in 0..MaxElitism }
    \cup { [FormDefaults EXCEPT !.genetic.populationSize = p] : p \in 0..MaxPop }
    \cup { [FormDefaults EXCEPT !.novelty.enabled = TRUE, !.novelty.weight = 100,
                                !.novelty.archiveSize = z] : z \in 1..MaxArchive }
    \cup { [FormDefaults EXCEPT !.sharing.enabled = TRUE],
           [FormDefaults EXCEPT !.adaptive.enabled = TRUE],
           [FormDefaults EXCEPT !.genetic.crossoverRate = 75] }

---------------------------------------------------------------------------
(* NeuralNetwork.  A network is its identity ref (standing for the arrays   *)
(* the constructor allocates), its weights w and, for the record, the      *)
(* rates of the mutate calls it has received.                              *)

Weights == 0..1

\* constructor + randomize, w drawn by Math.random
NewNetwork(ref, w) == [ref |-> ref, w |-> w, mutated |-> <<>>]

CloneShared(b, ref) == [ref |-> b.ref, w |-> b.w, mutated |-> <<>>]

\* clone(): a new network, every weight and bias copied
Clone(b, ref) == [ref |-> ref, w |-> b.w, mutated |-> <<>>]

\* the weights mutate(r) can leave: Math.random() < r never holds for r <= 0
MutateOutcomes(w, r) == IF r.n > 0 THEN Weights ELSE {w}

\* mutate(r) with the perturbations drawn so that the weights become w2
Mutate(b, r, w2) == [b EXCEPT !.w = w2, !.mutated = Append(@, r)]

\* crossover: every weight is taken from parent1 or from parent2
CrossoverOutcomes(p1, p2) == {p1.w, p2.w}

Crossover(p1, p2, ref, w) == [ref |-> ref, w |-> w, mutated |-> <<>>]

---------------------------------------------------------------------------
(* Car *)

\* new Car(x, y, angle, brain)
NewCar(id, brain) ==
    [id |-> id, brain |-> brain, alive |-> TRUE, fitness |-> 0, laps |-> 0,
     bestLapTime |-> Infinity, x |-> 0, y |-> 0, checkpointsPassed |-> 0,
     totalDistance |-> 0, novelty |-> 0, sharedFitness |-> Rat(0, 1),
     combinedScore |-> 0, isBest |-> FALSE]

\* what Car.update has left in a car when it dies
Outcomes ==
    { [fitness |-> -100, laps |-> 0, bestLapTime |-> Infinity,
       x |-> 0, checkpointsPassed |-> 0, totalDistance |-> 0],
      [fitness |-> 100, laps |-> 0, bestLapTime |-> Infinity,
       x |-> 3, checkpointsPassed |-> 0, totalDistance |-> 0],
      [fitness |-> 101, laps |-> 1, bestLapTime |-> 50,
       x |-> 0, checkpointsPassed |-> 1, totalDistance |-> 0] }

Terminal(car, o) ==
    [car EXCEPT !.alive = FALSE, !.fitness = o.fitness, !.laps = o.laps,
                !.bestLapTime = o.bestLapTime, !.x = o.x,
                !.checkpointsPassed = o.checkpointsPassed,
                !.totalDistance = o.totalDistance]

---------------------------------------------------------------------------
(* NoveltyArchive *)

\* getBehaviorDescriptor(car)
GetBehaviorDescriptor(car) ==
    [finalX |-> car.x, finalY |-> car.y, maxCheckpoints |-> car.checkpointsPassed,
     maxDistance |-> car.totalDistance]

\* NoveltyArchive.behaviorDistance, times 10 (distWeight is 0.1)
ArchiveDistance(b1, b2) ==
    LET posDist == Sqrt((b1.finalX - b2.finalX) * (b1.finalX - b2.finalX)
                        + (b1.finalY - b2.finalY) * (b1.finalY - b2.finalY))
        cpDist == Abs(b1.maxCheckpoints - b2.maxCheckpoints) * 100
        distDist == Abs(b1.maxDistance - b2.maxDistance)
    IN  10 * posDist + 10 * cpDist + distDist

\* the sum of the k smallest elements of a sequence of numbers
RECURSIVE SumSmallest(_, _)
SumSmallest(ds, k) ==
    IF k = 0 \/ ds = <<>> THEN 0
    ELSE LET i == CHOOSE i \in DOMAIN ds : \A j \in DOMAIN ds : ds[i] <= ds[j]
             rest == Array([j \in 1..(Len(ds) - 1) |-> IF j < i THEN ds[j] ELSE ds[j + 1]])
         IN  ds[i] + SumSmallest(rest, k - 1)

\* calculateNovelty(behavior), times NoveltyScale
CalculateNovelty(behaviors, behavior) ==
    IF Len(behaviors) = 0 THEN FirstNovelty * NoveltyScale
    ELSE LET distances == Array([i \in DOMAIN behaviors |->
                                    ArchiveDistance(behavior, behaviors[i])])
             k == Min(cfg.novelty.kNeighbors, Len(distances))
         IN  (SumSmallest(distances, k) * (NoveltyScale \div 10)) \div k

\* the test of maybeAdd: novelty > threshold || this.behaviors.length < 10
Admits(behaviors, novelty) ==
    novelty > NoveltyThreshold * NoveltyScale \/ Len(behaviors) < BootstrapCount

MaybeAddEvictsNewest(behaviors, behavior, novelty) ==
    IF Admits(behaviors, novelty)
    THEN LET pushed == Append(behaviors, behavior)
         IN  IF Len(pushed) > cfg.novelty.archiveSize
             THEN SubSeq(pushed, 1, Len(pushed) - 1) ELSE pushed
    ELSE behaviors

\* maybeAdd(behavior, novelty): push, then one shift if over archiveSize
MaybeAdd(behaviors, behavior, novelty) ==
    IF Admits(behaviors, novelty)
    THEN LET pushed == Append(behaviors, behavior)
         IN  IF Len(pushed) > cfg.novelty.archiveSize THEN Tail(pushed) ELSE pushed
    ELSE behaviors

---------------------------------------------------------------------------
(* GeneticAlgorithm *)

\* constructor(populationSize)
NewGA(populationSize) ==
    [populationSize |-> populationSize, generation |-> 1, bestFitness |-> 0,
     bestLaps |-> 0, bestLapTime |-> Infinity, bestBrain |-> Null,
     allTimeBestBrain |-> Null, stagnationCounter |-> 0, lastBestFitness |-> 0,
     noveltyArchive |-> <<>>, diversity |-> Rat(0, 1)]

ResetGAKeepsArchive(g) ==
    [g EXCEPT !.generation = 1, !.bestFitness = 0, !.bestLaps = 0,
              !.bestLapTime = Infinity, !.bestBrain = Null,
              !.allTimeBestBrain = Null, !.stagnationCounter = 0,
              !.lastBestFitness = 0, !.diversity = Rat(0, 1)]

\* reset()
ResetGA(g) ==
    [g EXCEPT !.generation = 1, !.bestFitness = 0, !.bestLaps = 0,
              !.bestLapTime = Infinity, !.bestBrain = Null,
              !.allTimeBestBrain = Null, !.stagnationCounter = 0,
              !.lastBestFitness = 0, !.diversity = Rat(0, 1),
              !.noveltyArchive = <<>>]

GetCurrentMutationRateUncapped(g) ==
    IF cfg.adaptive.enabled
    THEN RatAdd(Rat(cfg.genetic.mutationRate, 1),
                RatMul(Rat(g.stagnationCounter, cfg.adaptive.stagnationThreshold),
                       Rat(cfg.adaptive.mutationBoost, 1)))
    ELSE Rat(cfg.genetic.mutationRate, 1)

\* getCurrentMutationRate(), in percent
GetCurrentMutationRate(g) ==
    LET base == Rat(cfg.genetic.mutationRate, 1)
        stagnationBoost ==
            RatMul(RatMin(Rat(g.stagnationCounter, cfg.adaptive.stagnationThreshold),
                          Rat(1, 1)),
                   Rat(cfg.adaptive.mutationBoost, 1))
        r == IF cfg.adaptive.enabled THEN RatAdd(base, stagnationBoost) ELSE base
    IN  RatMin(r, Rat(RateCap, 1))

\* GeneticAlgorithm.behaviorDistance(car1, car2)
BehaviorDistance(car1, car2) ==
    LET posDist == Sqrt((car1.x - car2.x) * (car1.x - car2.x)
                        + (car1.y - car2.y) * (car1.y - car2.y))
        cpDist == Abs(car1.checkpointsPassed - car2.checkpointsPassed) * CheckpointWeightGA
    IN  posDist + cpDist

\* applyFitnessSharing(cars): sharedFitness = fitness / (1 + sharingSum), with
\* 1 + sharingSum = (sigma + the sum of sigma - distance) / sigma
ApplyFitnessSharing(cs) ==
    IF ~cfg.sharing.enabled THEN cs
    ELSE LET sigma == cfg.sharing.sigma
             share(i, j) ==
                 IF i # j /\ BehaviorDistance(cs[i], cs[j]) < sigma
                 THEN sigma - BehaviorDistance(cs[i], cs[j]) ELSE 0
         IN  Array([i \in DOMAIN cs |->
                [cs[i] EXCEPT !.sharedFitness =
                    Rat(cs[i].fitness * sigma,
                        sigma + SeqSum([j \in DOMAIN cs |-> share(i, j)]))]])

\* the body of the loop of applyNoveltyScores for cars i..Len(cs): every car is
\* scored against the archive as its predecessors left it, then offered to it
RECURSIVE NoveltyLoop(_, _, _)
NoveltyLoop(cs, behaviors, i) ==
    IF i > Len(cs) THEN [cars |-> cs, behaviors |-> behaviors]
    ELSE LET behavior == GetBehaviorDescriptor(cs[i])
             novelty == CalculateNovelty(behaviors, behavior)
             combined == (100 - cfg.novelty.weight) * cs[i].fitness * (NoveltyScale \div 10)
                         + 2 * cfg.novelty.weight * novelty
             scored == [cs EXCEPT ![i].novelty = novelty, ![i].combinedScore = combined]
         IN  NoveltyLoop(scored, MaybeAdd(behaviors, behavior, novelty), i + 1)

\* applyNoveltyScores(cars)
ApplyNoveltyScores(cs, behaviors) ==
    IF ~cfg.novelty.enabled THEN [cars |-> cs, behaviors |-> behaviors]
    ELSE NoveltyLoop(cs, behaviors, 1)

\* calculateDiversity(cars): the new value of this.diversity
CalculateDiversity(cs, old) ==
    IF Len(cs) < 2 THEN old
    ELSE LET n == Min(Len(cs), 20)
             pairs == {p \in (1..n) \X (1..n) : p[1] < p[2]}
             total == SeqSum([i \in 1..n |->
                         SeqSum([j \in 1..n |->
                            IF i < j THEN BehaviorDistance(cs[i], cs[j]) ELSE 0])])
         IN  Rat(total, Cardinality(pairs))

---------------------------------------------------------------------------
(* Object identities.  A new object differs from every object that exists  *)
(* when it is created; identities of unreachable objects are used again.   *)

BrainRefs(g) ==
    {b.ref : b \in {g.bestBrain, g.allTimeBestBrain} \ {Null}}

Used(g, cs) ==
    BrainRefs(g) \cup {cs[i].id : i \in DOMAIN cs} \cup {cs[i].brain.ref : i \in DOMAIN cs}

\* the n smallest identities not in used, in increasing order
Fresh(used, n) ==
    LET free == (0..(Cardinality(used) + n)) \ used
    IN  Array([i \in 1..n |->
                 CHOOSE x \in free : Cardinality({y \in free : y < x}) = i - 1])

---------------------------------------------------------------------------
(* selection *)

\* sortKey: `a || b` is b when a is 0
SortKey(car) ==
    IF cfg.novelty.enabled
    THEN IF car.combinedScore # 0 THEN Rat(car.combinedScore, CombinedScale)
         ELSE Rat(car.fitness, 1)
    ELSE IF cfg.sharing.enabled
    THEN IF car.sharedFitness.n # 0 THEN car.sharedFitness ELSE Rat(car.fitness, 1)
    ELSE Rat(car.fitness, 1)

\* [...cars].sort((a, b) => sortKey(b) - sortKey(a)): descending and stable
SortDescending(cs) ==
    LET before(j, i) == \/ RatLess(SortKey(cs[i]), SortKey(cs[j]))
                        \/ RatEq(SortKey(cs[i]), SortKey(cs[j])) /\ j < i
        rank(i) == Cardinality({j \in DOMAIN cs : before(j, i)})
    IN  Array([r \in DOMAIN cs |-> cs[CHOOSE i \in DOMAIN cs : rank(i) = r - 1]])

StagnationNoTolerance(g, bestFitness) ==
    IF bestFitness <= g.lastBestFitness THEN g.stagnationCounter + 1 ELSE 0

\* stagnation detection: bestFitness <= lastBestFitness * 1.01
Stagnation(g, bestFitness) ==
    IF 100 * bestFitness <= 101 * g.lastBestFitness THEN g.stagnationCounter + 1 ELSE 0

\* Math.max(4, Math.floor(populationSize * 0.25))
EliteCount(g) == Max(MinElite, (g.populationSize * 25) \div 100)

RecordsOverwrite(g, best) ==
    [g EXCEPT !.bestFitness = best.fitness, !.bestLaps = best.laps,
              !.bestLapTime = best.bestLapTime]

\* the best-ever records after `best` has been seen (bestBrain apart)
Records(g, best) ==
    [g EXCEPT !.bestFitness = IF best.fitness > @ THEN best.fitness ELSE @,
              !.bestLaps = IF best.laps > @ THEN best.laps ELSE @,
              !.bestLapTime = IF best.bestLapTime < @ THEN best.bestLapTime ELSE @]

AllTimeBestBrainShared(g, best, ref) ==
    IF g.allTimeBestBrain = Null \/ best.fitness >= g.bestFitness
    THEN best.brain ELSE g.allTimeBestBrain

\* the all-time best brain after `best` has been seen by an engine g whose
\* bestFitness is already updated: if (!this.allTimeBestBrain || bestFitness
\* >= this.bestFitness) this.allTimeBestBrain = best.brain.clone()
AllTimeBestBrain(g, best, ref) ==
    IF g.allTimeBestBrain = Null \/ best.fitness >= g.bestFitness
    THEN Clone(best.brain, ref) ELSE g.allTimeBestBrain

\* selection(cars) on a non-empty population: the engine afterwards, the
\* population as scored, the local `sorted` and the returned elite
Selection(g, cs) ==
    LET shared == ApplyFitnessSharing(cs)
        nov == ApplyNoveltyScores(shared, g.noveltyArchive)
        srt == SortDescending(nov.cars)
        best == srt[1]
        refs == Fresh(Used(g, cs), 2)
        improved == best.fitness > g.bestFitness
        g1 == [Records(g, best) EXCEPT
                 !.noveltyArchive = nov.behaviors,
                 !.diversity = CalculateDiversity(nov.cars, g.diversity),
                 !.stagnationCounter = Stagnation(g, best.fitness),
                 !.lastBestFitness = best.fitness,
                 !.bestBrain = IF improved THEN Clone(best.brain, refs[1]) ELSE @]
        g2 == [g1 EXCEPT !.allTimeBestBrain = AllTimeBestBrain(g1, best, refs[2])]
    IN  [ga |-> g2, cars |-> nov.cars, sorted |-> srt,
         elite |-> SubSeq(srt, 1, Min(EliteCount(g), Len(srt)))]

---------------------------------------------------------------------------
(* tournamentSelect *)

\* the score tournamentSelect compares
TournamentScore(car) ==
    IF cfg.novelty.enabled
    THEN IF car.combinedScore # 0 THEN Rat(car.combinedScore, CombinedScale)
         ELSE Rat(car.fitness, 1)
    ELSE Rat(car.fitness, 1)

\* the loop of tournamentSelect from draw i on, picks[i] being the index drawn
RECURSIVE TournamentLoop(_, _, _, _)
TournamentLoop(el, picks, i, best) ==
    IF i > Len(picks) THEN best
    ELSE LET competitor == el[picks[i]]
         IN  TournamentLoop(el, picks, i + 1,
                IF RatLess(TournamentScore(best), TournamentScore(competitor))
                THEN competitor ELSE best)

\* tournamentSelect(elite) when Math.random draws the indices picks
TournamentSelect(el, picks) == TournamentLoop(el, picks, 2, el[picks[1]])

TournamentPicks(el) ==
    [1..Min(TournamentMax, Len(el)) -> 1..Len(el)]

TournamentWinners(el) == {TournamentSelect(el, picks) : picks \in TournamentPicks(el)}

---------------------------------------------------------------------------
(* createPopulation and evolve *)

MutationStrengthFlat(g, i) ==
    RatMul(GetCurrentMutationRate(g), Rat(1, 2))

\* mutationStrength of createPopulation for index i (from 0)
MutationStrength(g, i) ==
    RatMul(GetCurrentMutationRate(g), RatAdd(Rat(1, 2), Rat(i, g.populationSize)))

\* the weights Math.random can give the brains of a new population
PopulationDraws(g) ==
    { ws \in [1..g.populationSize -> Weights] :
        g.allTimeBestBrain # Null =>
            \A i \in 1..g.populationSize :
                ws[i] \in IF i - 1 > 0
                          THEN MutateOutcomes(g.allTimeBestBrain.w, MutationStrength(g, i - 1))
                          ELSE {g.allTimeBestBrain.w} }

\* createPopulation(track), the brains' weights drawn as ws; ids are the
\* identities of the new cars and of their brains
CreatePopulation(g, ids, ws) ==
    Array([i \in 1..g.populationSize |->
        IF g.allTimeBestBrain # Null
        THEN NewCar(ids[i],
                 IF i - 1 > 0
                 THEN Mutate(Clone(g.allTimeBestBrain, ids[i]), MutationStrength(g, i - 1), ws[i])
                 ELSE Clone(g.allTimeBestBrain, ids[i]))
        ELSE NewCar(ids[i], NewNetwork(ids[i], ws[i]))])

\* a fill loop whose hypermutation test is against the threshold itself
ChildBrainsEager(g, el) ==
    LET winners == TournamentWinners(el)
        mutationRate == GetCurrentMutationRate(g)
        crossed == IF cfg.genetic.crossoverRate > 0
                   THEN {Crossover(p1.brain, p2.brain, 0, w) :
                            p1 \in winners, p2 \in winners,
                            w \in UNION {CrossoverOutcomes(q1.brain, q2.brain) :
                                            q1 \in winners, q2 \in winners}}
                   ELSE {}
        cloned == IF cfg.genetic.crossoverRate < 100
                  THEN {Clone(p1.brain, 0) : p1 \in winners} ELSE {}
        once == UNION {{Mutate(b, mutationRate, w) : w \in MutateOutcomes(b.w, mutationRate)} :
                          b \in crossed \cup cloned}
        twice == IF g.stagnationCounter > cfg.adaptive.stagnationThreshold
                 THEN UNION {{Mutate(b, Rat(HyperRate, 1), w) :
                                 w \in MutateOutcomes(b.w, Rat(HyperRate, 1))} : b \in once}
                 ELSE {}
    IN  once \cup twice

\* the brains one pass of the fill loop of evolve can produce (identity apart)
ChildBrains(g, el) ==
    LET winners == TournamentWinners(el)
        mutationRate == GetCurrentMutationRate(g)
        crossed == IF cfg.genetic.crossoverRate > 0
                   THEN {Crossover(p1.brain, p2.brain, 0, w) :
                            p1 \in winners, p2 \in winners,
                            w \in UNION {CrossoverOutcomes(q1.brain, q2.brain) :
                                            q1 \in winners, q2 \in winners}}
                   ELSE {}
        cloned == IF cfg.genetic.crossoverRate < 100
                  THEN {Clone(p1.brain, 0) : p1 \in winners} ELSE {}
        once == UNION {{Mutate(b, mutationRate, w) : w \in MutateOutcomes(b.w, mutationRate)} :
                          b \in crossed \cup cloned}
        twice == IF g.stagnationCounter > cfg.adaptive.stagnationThreshold * 2
                 THEN UNION {{Mutate(b, Rat(HyperRate, 1), w) :
                                 w \in MutateOutcomes(b.w, Rat(HyperRate, 1))} : b \in once}
                 ELSE {}
    IN  once \cup twice

IncrementGenerationTwice(g) == [g EXCEPT !.generation = @ + 2]

\* this.generation++
IncrementGeneration(g) == [g EXCEPT !.generation = @ + 1]

\* the number of passes of the elitism loop of evolve
ElitismCount(g, el) == Min(cfg.genetic.elitism, Len(el))

\* the number of passes of the fill loop of evolve after n elites
FillCount(g, n) == Max(0, g.populationSize - n)

\* the population evolve returns after selection gave el and the fill loop
\* produced the brains children
NewCars(g, el, ids, children) ==
    LET n == ElitismCount(g, el)
    IN  Array([i \in 1..(n + Len(children)) |->
            IF i <= n
            THEN [NewCar(ids[i], Clone(el[i].brain, ids[i])) EXCEPT !.isBest = (i = 1)]
            ELSE NewCar(ids[i], [children[i - n] EXCEPT !.ref = ids[i]])])

---------------------------------------------------------------------------
(* The initial state: Game's constructor loads track 1 *)

Init ==
    /\ cfg = DefaultConfig
    /\ ga = NewGA(DefaultConfig.genetic.populationSize)
    /\ \E ws \in PopulationDraws(NewGA(DefaultConfig.genetic.populationSize)) :
          cars = CreatePopulation(NewGA(DefaultConfig.genetic.populationSize),
                                  Fresh({}, DefaultConfig.genetic.populationSize), ws)
    /\ sorted = <<>>
    /\ elite = <<>>
    /\ rate = NoRate
    /\ lastOp = "init"
    /\ clicks = 0
    /\ ret = NoCall
    /\ file = NoFile
    /\ heap = <<>>
    /\ game = NewGame

\* an allDead that is satisfied by one dead car
AnyDead(cs) == \E i \in DOMAIN cs : ~cs[i].alive

\* GeneticAlgorithm.allDead
AllDead(cs) == \A i \in DOMAIN cs : ~cs[i].alive

\* selection(cars) on an empty population: nothing is assigned before
\* `const best = sorted[0]` gives undefined and `best.fitness` throws
SelectionThrows(cs) == cs = <<>>

\* Game.update over the frames of one generation: every car is updated until
\* it is dead (Car.update), and the update that finds them all dead replaces
\* the population: this.cars = this.ga.evolve(this.cars, this.track).  Of an
\* empty population every car is dead: evolve is called and the TypeError of
\* selection leaves update, and the frame loop, before anything is assigned.
Update ==
    /\ ga.generation < MaxGen
    /\ IF SelectionThrows(cars)
       THEN /\ AllDead(cars)
            /\ lastOp' = "evolve: TypeError"
            /\ sorted' = <<>>
            /\ elite' = <<>>
            /\ UNCHANGED <<ga, cars>>
       ELSE /\ \E os \in [DOMAIN cars -> Outcomes] :
                  \E dead \in {Array([i \in DOMAIN cars |-> Terminal(cars[i], os[i])])} :
                     /\ AllDead(dead)
                     /\ \E sel \in {Selection(ga, dead)} :
                           \E n \in {ElitismCount(sel.ga, sel.elite)} :
                              \E ids \in {Fresh(Used(sel.ga, dead), n + FillCount(sel.ga, n))} :
                                 /\ \E children \in [1..FillCount(sel.ga, n) ->
                                                         ChildBrains(sel.ga, sel.elite)] :
                                        cars' = NewCars(sel.ga, sel.elite, ids, children)
                                 /\ ga' = IncrementGeneration(sel.ga)
                                 /\ sorted' = sel.sorted
                                 /\ elite' = sel.elite
            /\ lastOp' = "evolve"
    /\ ret' = NoCall
    /\ UNCHANGED <<cfg, rate, clicks, file, heap, game>>

\* Game.reset
Reset ==
    /\ clicks < MaxClicks
    /\ clicks' = clicks + 1
    /\ LET g == [ResetGA(ga) EXCEPT !.populationSize = cfg.genetic.populationSize]
       IN  /\ ga' = g
           /\ \E ws \in PopulationDraws(g) :
                  cars' = CreatePopulation(g, Fresh(Used(g, cars), g.populationSize), ws)
    /\ sorted' = <<>>
    /\ elite' = <<>>
    /\ lastOp' = "reset"
    /\ ret' = [op |-> "reset", generation |-> ga.generation,
                archived |-> Len(ga.noveltyArchive)]
    /\ UNCHANGED <<cfg, rate, file, heap, game>>

\* what checkNetworkStructureChanged can answer: false without a best brain,
\* else whether the form's layer sizes differ from the best brain's
CheckNetworkStructureChanged(g) ==
    IF g.allTimeBestBrain = Null THEN {FALSE} ELSE BOOLEAN

\* Game.applyConfig: Config.loadFromUI, then a new engine if the network's
\* structure changed, else the engine kept with its populationSize updated,
\* then the population is recreated under the new configuration
ApplyConfig ==
    /\ ga.generation < MaxGen
    /\ clicks < MaxClicks
    /\ clicks' = clicks + 1
    /\ \E c \in UIChoices, networkChanged \in CheckNetworkStructureChanged(ga) :
          /\ cfg' = c
          /\ \E g \in {IF networkChanged
                        THEN ResetGA(NewGA(c.genetic.populationSize))
                        ELSE [ga EXCEPT !.populationSize = c.genetic.populationSize]} :
                /\ ga' = g
                /\ \E ids \in {Fresh(Used(g, cars), g.populationSize)} :
                      \E ws \in [1..g.populationSize -> Weights] :
                          /\ ws \in PopulationDraws(g)'
                          /\ cars' = CreatePopulation(g, ids, ws)'
          /\ lastOp' = IF networkChanged THEN "applyConfig, new engine" ELSE "applyConfig"
    /\ sorted' = <<>>
    /\ elite' = <<>>
    /\ ret' = NoCall
    /\ UNCHANGED <<rate, file, heap, game>>

\* the car count input's change handler: this.ga.populationSize = parseInt(value)
CarCountChange ==
    /\ ga.generation < MaxGen
    /\ clicks < MaxClicks
    /\ clicks' = clicks + 1
    /\ \E p \in 1..MaxPop :
          /\ p # ga.populationSize
          /\ ga' = [ga EXCEPT !.populationSize = p]
    /\ sorted' = <<>>
    /\ elite' = <<>>
    /\ lastOp' = "carCountChange"
    /\ ret' = NoCall
    /\ UNCHANGED <<cfg, cars, rate, file, heap, game>>

Next ==
    \/ Update
    \/ Reset
    \/ ApplyConfig
    \/ CarCountChange

Spec == Init /\ [][Next]_vars

---------------------------------------------------------------------------
(* getCurrentMutationRate on its own: the configuration is drawn from the  *)
(* values the form can give, the stagnation counter moves as selection     *)
(* moves it, and the rate is read at any moment.                           *)

BaseRates == {0, 1, 15, 50, 80, 100}

Boosts == {0, 10, 30, 100}

RateConfigs ==
    { [DefaultConfig EXCEPT !.genetic.mutationRate = b,
                            !.adaptive = [enabled |-> e, stagnationThreshold |-> t,
                                          mutationBoost |-> m]] :
        b \in BaseRates, e \in BOOLEAN, t \in 1..MaxThreshold, m \in Boosts }

InitRate ==
    /\ cfg \in RateConfigs
    /\ ga = NewGA(DefaultConfig.genetic.populationSize)
    /\ cars = <<>>
    /\ sorted = <<>>
    /\ elite = <<>>
    /\ rate = NoRate
    /\ lastOp = "init"
    /\ clicks = 0
    /\ ret = NoCall
    /\ file = NoFile
    /\ heap = <<>>
    /\ game = NewGame

\* a call of getCurrentMutationRate, as getStats and evolve make it
GetRate ==
    /\ rate' = GetCurrentMutationRate(ga)
    /\ lastOp' = "getCurrentMutationRate"
    /\ UNCHANGED <<cfg, ga, cars, sorted, elite, clicks, ret, file, heap, game>>

\* selection found no improvement: this.stagnationCounter++
Stagnate ==
    /\ ga.stagnationCounter < MaxStagnation
    /\ ga' = [ga EXCEPT !.stagnationCounter = @ + 1]
    /\ lastOp' = "selection"
    /\ UNCHANGED <<cfg, cars, sorted, elite, rate, clicks, ret, file, heap, game>>

\* selection found an improvement: this.stagnationCounter = 0
Improve ==
    /\ ga.stagnationCounter > 0
    /\ ga' = [ga EXCEPT !.stagnationCounter = 0]
    /\ lastOp' = "selection"
    /\ UNCHANGED <<cfg, cars, sorted, elite, rate, clicks, ret, file, heap, game>>

NextRate ==
    \/ GetRate
    \/ Stagnate
    \/ Improve

SpecRate == InitRate /\ [][NextRate]_vars

---------------------------------------------------------------------------
(* The novelty archive on its own: behaviours are offered to it one at a   *)
(* time, as the loop of applyNoveltyScores offers them, and the form       *)
(* changes archiveSize between offers.                                     *)

\* the archive sizes the form gives: the smallest, the bound of the engine's
\* model, and one above the count up to which every behaviour is admitted
ArchiveSizes == {1, MaxArchive, BootstrapCount + 1}

\* where a car can have ended: at the start, or one checkpoint further
ArchiveBehaviors ==
    { [finalX |-> 0, finalY |-> 0, maxCheckpoints |-> c, maxDistance |-> 0] :
        c \in 0..1 }

ArchiveConfigs ==
    { [DefaultConfig EXCEPT !.novelty = [enabled |-> TRUE, weight |-> 50,
                                         archiveSize |-> z, kNeighbors |-> 1]] :
        z \in ArchiveSizes }

InitArchive ==
    /\ cfg \in ArchiveConfigs
    /\ ga = NewGA(DefaultConfig.genetic.populationSize)
    /\ cars = <<>>
    /\ sorted = <<>>
    /\ elite = <<>>
    /\ rate = NoRate
    /\ lastOp = "init"
    /\ clicks = 0
    /\ ret = NoCall
    /\ file = NoFile
    /\ heap = <<>>
    /\ game = NewGame

\* one pass of the loop of applyNoveltyScores: calculateNovelty, then maybeAdd
Offer ==
    /\ \E behavior \in ArchiveBehaviors :
          \E novelty \in {CalculateNovelty(ga.noveltyArchive, behavior)} :
             /\ ga' = [ga EXCEPT !.noveltyArchive = MaybeAdd(@, behavior, novelty)]
             /\ ret' = [op |-> "maybeAdd", behavior |-> behavior, novelty |-> novelty,
                         admitted |-> Admits(ga.noveltyArchive, novelty),
                         before |-> ga.noveltyArchive]
    /\ lastOp' = "maybeAdd"
    /\ UNCHANGED <<cfg, cars, sorted, elite, rate, clicks, file, heap, game>>

\* Config.loadFromUI reads another archiveSize from the form
Resize ==
    /\ \E z \in ArchiveSizes \ {cfg.novelty.archiveSize} :
          cfg' = [cfg EXCEPT !.novelty.archiveSize = z]
    /\ lastOp' = "loadFromUI"
    /\ ret' = NoCall
    /\ UNCHANGED <<ga, cars, sorted, elite, rate, clicks, file, heap, game>>

NextArchive ==
    \/ Offer
    \/ Resize

SpecArchive == InitArchive /\ [][NextArchive]_vars

---------------------------------------------------------------------------
(* The engine's methods called one at a time on a pool of more agents than *)
(* the game's specification affords: selection, tournamentSelect on the    *)
(* elite it returned, and createPopulation.                                *)

PoolSize == MaxPop + 1

\* the configurations of the pool: one per ranking key, without a mutation
\* rate and with the highest one, and a pool of one
PoolConfigs ==
    LET base == [DefaultConfig EXCEPT !.genetic.populationSize = PoolSize,
                                      !.genetic.mutationRate = 15,
                                      !.sharing.sigma = 50,
                                      !.novelty.weight = 50,
                                      !.adaptive.stagnationThreshold = 1,
                                      !.adaptive.mutationBoost = 30]
    IN  { base,
          [base EXCEPT !.genetic.mutationRate = 0],
          [base EXCEPT !.genetic.mutationRate = RateCap],
          [base EXCEPT !.genetic.mutationRate = 0, !.adaptive.enabled = TRUE],
          [base EXCEPT !.sharing.enabled = TRUE],
          [base EXCEPT !.novelty.enabled = TRUE],
          [base EXCEPT !.genetic.populationSize = 1] }

InitPool ==
    /\ cfg \in PoolConfigs
    /\ ga = NewGA(cfg.genetic.populationSize)
    /\ \E ws \in PopulationDraws(NewGA(cfg.genetic.populationSize)) :
          /\ \A i \in DOMAIN ws : ws[i] = i % 2
          /\ cars = CreatePopulation(NewGA(cfg.genetic.populationSize),
                                     Fresh({}, cfg.genetic.populationSize), ws)
    /\ sorted = <<>>
    /\ elite = <<>>
    /\ rate = NoRate
    /\ lastOp = "init"
    /\ clicks = 0
    /\ ret = NoCall
    /\ file = NoFile
    /\ heap = <<>>
    /\ game = NewGame

\* selection(cars), called when every car of the population is dead
SelectionCall ==
    /\ clicks < MaxClicks - 1
    /\ clicks' = clicks + 1
    /\ cars # <<>>
    /\ \A i \in DOMAIN cars : cars[i].alive
    /\ \E os \in [DOMAIN cars -> Outcomes] :
          \E dead \in {Array([i \in DOMAIN cars |-> Terminal(cars[i], os[i])])} :
             \E sel \in {Selection(ga, dead)} :
                /\ ga' = sel.ga
                /\ cars' = sel.cars
                /\ sorted' = sel.sorted
                /\ elite' = sel.elite
    /\ lastOp' = "selection"
    /\ ret' = NoCall
    /\ UNCHANGED <<cfg, rate, file, heap, game>>

\* tournamentSelect(elite) on the elite selection returned
TournamentCall ==
    /\ elite # <<>>
    /\ \E picks \in TournamentPicks(elite) :
          ret' = [op |-> "tournamentSelect", picks |-> picks,
                  winner |-> TournamentSelect(elite, picks)]
    /\ lastOp' = "tournamentSelect"
    /\ UNCHANGED <<cfg, ga, cars, sorted, elite, rate, clicks, file, heap, game>>

\* createPopulation(track)
CreatePopulationCall ==
    /\ lastOp # "createPopulation"
    /\ \E ids \in {Fresh(Used(ga, cars), ga.populationSize)} :
          \E ws \in PopulationDraws(ga) :
              cars' = CreatePopulation(ga, ids, ws)
    /\ sorted' = <<>>
    /\ elite' = <<>>
    /\ lastOp' = "createPopulation"
    /\ ret' = NoCall
    /\ UNCHANGED <<cfg, ga, rate, clicks, file, heap, game>>

NextPool ==
    \/ SelectionCall
    \/ TournamentCall
    \/ CreatePopulationCall

SpecPool == InitPool /\ [][NextPool]_vars

---------------------------------------------------------------------------
(* NeuralNetwork in detail.  heap.arr holds the arrays (a matrix with its  *)
(* rows, or a vector) and heap.net the NeuralNetwork objects, each under   *)
(* its identity; a network holds its three sizes and the identities of its *)
(* four arrays, so that two networks can hold the same array.  cloneOf     *)
(* remembers, for the claims, the network a clone was made of.             *)

\* the layer sizes and the values Math.random gives a new network's cells
NetSizes == 1..MaxSize

NetWeights == {1}

\* the calls made on networks in one behaviour
MaxOps == MaxClicks + 2

\* the value of a missing array element or property, the mark of a TypeError
\* thrown by reading a property of undefined, and null: none is a number the
\* program computes
Undefined == -Infinity - 1

Thrown == -Infinity - 2

JSNull == -Infinity - 3

EmptyHeap == [net |-> <<>>, arr |-> <<>>]

\* createMatrix(rows, cols) and createArray(size), every cell set to v
CreateMatrix(rows, cols, v) == Array([i \in 1..rows |-> Array([j \in 1..cols |-> v])])

CreateArray(size, v) == Array([i \in 1..size |-> v])

\* a[i], and m[i][j], which throws when m[i] is undefined
At(a, i) == IF i \in DOMAIN a THEN a[i] ELSE Undefined

Cell(m, i, j) == IF i \in DOMAIN m THEN At(m[i], j) ELSE Thrown

\* the arrays of the network n, as they are in the heap h
Tensors(h, n) ==
    [weightsInputHidden |-> h.arr[n.weightsInputHidden],
     weightsHiddenOutput |-> h.arr[n.weightsHiddenOutput],
     biasHidden |-> h.arr[n.biasHidden],
     biasOutput |-> h.arr[n.biasOutput]]

ArrayIds(n) ==
    {n.weightsInputHidden, n.weightsHiddenOutput, n.biasHidden, n.biasOutput}

\* a new object with the sizes given and four new arrays of the contents t
NewObject(h, inputSize, hiddenSize, outputSize, t, cloneOf) ==
    LET base == Len(h.arr)
    IN  [net |-> Append(h.net,
                    [inputSize |-> inputSize, hiddenSize |-> hiddenSize,
                     outputSize |-> outputSize,
                     weightsInputHidden |-> base + 1, weightsHiddenOutput |-> base + 2,
                     biasHidden |-> base + 3, biasOutput |-> base + 4,
                     cloneOf |-> cloneOf]),
         arr |-> h.arr \o <<t.weightsInputHidden, t.weightsHiddenOutput,
                            t.biasHidden, t.biasOutput>>]

\* new NeuralNetwork(inputSize, hiddenSize, outputSize), randomize drawing v
NNConstruct(h, inputSize, hiddenSize, outputSize, v) ==
    NewObject(h, inputSize, hiddenSize, outputSize,
              [weightsInputHidden |-> CreateMatrix(hiddenSize, inputSize, v),
               weightsHiddenOutput |-> CreateMatrix(outputSize, hiddenSize, v),
               biasHidden |-> CreateArray(hiddenSize, v),
               biasOutput |-> CreateArray(outputSize, v)], 0)

NNCloneShallow(h, id) ==
    [h EXCEPT !.net = Append(@, [h.net[id] EXCEPT !.cloneOf = id])]

\* clone(): a new network of this network's sizes, every cell copied by the
\* loops over hiddenSize, inputSize and outputSize
NNClone(h, id) ==
    LET n == h.net[id]
        t == Tensors(h, n)
    IN  NewObject(h, n.inputSize, n.hiddenSize, n.outputSize,
           [weightsInputHidden |->
                Array([i \in 1..n.hiddenSize |->
                    Array([j \in 1..n.inputSize |-> Cell(t.weightsInputHidden, i, j)])]),
            weightsHiddenOutput |->
                Array([i \in 1..n.outputSize |->
                    Array([j \in 1..n.hiddenSize |-> Cell(t.weightsHiddenOutput, i, j)])]),
            biasHidden |-> Array([i \in 1..n.hiddenSize |-> At(t.biasHidden, i)]),
            biasOutput |-> Array([i \in 1..n.outputSize |-> At(t.biasOutput, i)])],
           id)

\* the cells the loops of mutate visit
MutateCells(n) ==
    {<<"weightsInputHidden", i, j>> : i \in 1..n.hiddenSize, j \in 1..n.inputSize}
    \cup {<<"weightsHiddenOutput", i, j>> : i \in 1..n.outputSize, j \in 1..n.hiddenSize}
    \cup {<<"biasHidden", i, 0>> : i \in 1..n.hiddenSize}
    \cup {<<"biasOutput", i, 0>> : i \in 1..n.outputSize}

\* mutate(rate) when Math.random() < rate holds for the cell c alone, whose
\* value the mutation raises by delta
NNMutate(h, id, c, delta) ==
    LET n == h.net[id]
    IN  IF c[3] = 0
        THEN [h EXCEPT !.arr[n[c[1]]][c[2]] = @ + delta]
        ELSE [h EXCEPT !.arr[n[c[1]]][c[2]][c[3]] = @ + delta]

\* the names of the four arrays
TensorNames == {"weightsInputHidden", "weightsHiddenOutput", "biasHidden", "biasOutput"}

\* static crossover(parent1, parent2): the child has parent1's sizes, and the
\* loops over parent1's sizes take every cell of the array a from parent d[a]
\* (Math.random() < 0.5 ? parent1 : parent2).  Reading a row parent2 does not
\* have throws; reading a cell past the end of a row or vector gives undefined.
NNCrossover(h, id1, id2, d) ==
    LET p1 == h.net[id1]
        from(a) == Tensors(h, h.net[IF d[a] = 1 THEN id1 ELSE id2])[a]
        t == [weightsInputHidden |->
                 Array([i \in 1..p1.hiddenSize |->
                     Array([j \in 1..p1.inputSize |->
                         Cell(from("weightsInputHidden"), i, j)])]),
              weightsHiddenOutput |->
                 Array([i \in 1..p1.outputSize |->
                     Array([j \in 1..p1.hiddenSize |->
                         Cell(from("weightsHiddenOutput"), i, j)])]),
              biasHidden |-> Array([i \in 1..p1.hiddenSize |-> At(from("biasHidden"), i)]),
              biasOutput |-> Array([i \in 1..p1.outputSize |-> At(from("biasOutput"), i)])]
        thrown == \E a \in {"weightsInputHidden", "weightsHiddenOutput"} :
                     \E i \in DOMAIN t[a] : \E j \in DOMAIN t[a][i] : t[a][i][j] = Thrown
    IN  IF thrown THEN [error |-> "TypeError", heap |-> h]
        ELSE [error |-> "none",
              heap |-> NewObject(h, p1.inputSize, p1.hiddenSize, p1.outputSize, t, 0)]

\* activate(x) = Math.tanh(x), and the sum it is applied to, left as written
Activate(bias, terms) == [f |-> "tanh", bias |-> bias, terms |-> terms]

\* predict(inputs)
Predict(h, n, inputs) ==
    LET t == Tensors(h, n)
        hidden == Array([i \in 1..n.hiddenSize |->
                     Activate(At(t.biasHidden, i),
                              Array([j \in 1..n.inputSize |->
                                  <<At(inputs, j), Cell(t.weightsInputHidden, i, j)>>]))])
    IN  Array([i \in 1..n.outputSize |->
            Activate(At(t.biasOutput, i),
                     Array([j \in 1..n.hiddenSize |->
                         <<hidden[j], Cell(t.weightsHiddenOutput, i, j)>>]))])

\* the input vectors predict is compared on
Inputs(n) == [1..n.inputSize -> 0..1]

---------------------------------------------------------------------------
(* JSON.  A number is written in decimal, undefined in an array and the    *)
(* numbers that are not finite are written as null, and null is read back  *)
(* as null.                                                                *)

DigitChars == <<"0", "1", "2", "3", "4", "5", "6", "7", "8", "9">>

NullChars == <<"n", "u", "l", "l">>

RECURSIVE NatToJSON(_)
NatToJSON(n) ==
    IF n < 10 THEN <<DigitChars[n + 1]>>
    ELSE Append(NatToJSON(n \div 10), DigitChars[(n % 10) + 1])

\* JSON.stringify of a number
NumberToJSON(v) ==
    IF v \in {Undefined, JSNull, Infinity, -Infinity} THEN NullChars
    ELSE IF v < 0 THEN <<"-">> \o NatToJSON(-v)
    ELSE NatToJSON(v)

RECURSIVE NatFromJSON(_)
NatFromJSON(chars) ==
    LET last == chars[Len(chars)]
        digit == CHOOSE d \in 0..9 : DigitChars[d + 1] = last
    IN  IF Len(chars) = 1 THEN digit
        ELSE 10 * NatFromJSON(SubSeq(chars, 1, Len(chars) - 1)) + digit

\* JSON.parse of a number or null
NumberFromJSON(chars) ==
    IF chars = NullChars THEN JSNull
    ELSE IF chars[1] = "-" THEN -NatFromJSON(Tail(chars))
    ELSE NatFromJSON(chars)

\* toJSON(): a record of the sizes and of the network's own arrays
ToJSON(n) ==
    [inputSize |-> n.inputSize, hiddenSize |-> n.hiddenSize, outputSize |-> n.outputSize,
     weightsInputHidden |-> n.weightsInputHidden,
     weightsHiddenOutput |-> n.weightsHiddenOutput,
     biasHidden |-> n.biasHidden, biasOutput |-> n.biasOutput]

\* JSON.stringify of such a record: the text of every number in it
StringifyBrain(h, data) ==
    LET matrix(m) == Array([i \in DOMAIN m |->
                        Array([j \in DOMAIN m[i] |-> NumberToJSON(m[i][j])])])
        vector(a) == Array([i \in DOMAIN a |-> NumberToJSON(a[i])])
    IN  [inputSize |-> NumberToJSON(data.inputSize),
         hiddenSize |-> NumberToJSON(data.hiddenSize),
         outputSize |-> NumberToJSON(data.outputSize),
         weightsInputHidden |-> matrix(h.arr[data.weightsInputHidden]),
         weightsHiddenOutput |-> matrix(h.arr[data.weightsHiddenOutput]),
         biasHidden |-> vector(h.arr[data.biasHidden]),
         biasOutput |-> vector(h.arr[data.biasOutput])]

\* JSON.parse of that text: new arrays, and the record that holds them
ParseBrain(h, text) ==
    LET matrix(m) == Array([i \in DOMAIN m |->
                        Array([j \in DOMAIN m[i] |-> NumberFromJSON(m[i][j])])])
        vector(a) == Array([i \in DOMAIN a |-> NumberFromJSON(a[i])])
        base == Len(h.arr)
    IN  [heap |-> [h EXCEPT !.arr = @ \o <<matrix(text.weightsInputHidden),
                                            matrix(text.weightsHiddenOutput),
                                            vector(text.biasHidden),
                                            vector(text.biasOutput)>>],
         data |-> [inputSize |-> NumberFromJSON(text.inputSize),
                   hiddenSize |-> NumberFromJSON(text.hiddenSize),
                   outputSize |-> NumberFromJSON(text.outputSize),
                   weightsInputHidden |-> base + 1, weightsHiddenOutput |-> base + 2,
                   biasHidden |-> base + 3, biasOutput |-> base + 4]]

FromJSONSwapsSizes(h, data) ==
    [h EXCEPT !.net = Append(@,
        [inputSize |-> data.inputSize, hiddenSize |-> data.outputSize,
         outputSize |-> data.hiddenSize,
         weightsInputHidden |-> data.weightsInputHidden,
         weightsHiddenOutput |-> data.weightsHiddenOutput,
         biasHidden |-> data.biasHidden, biasOutput |-> data.biasOutput,
         cloneOf |-> 0])]

\* static fromJSON(data): a new network of the sizes in data whose four
\* arrays are replaced by the arrays data holds
FromJSON(h, data) ==
    [h EXCEPT !.net = Append(@,
        [inputSize |-> data.inputSize, hiddenSize |-> data.hiddenSize,
         outputSize |-> data.outputSize,
         weightsInputHidden |-> data.weightsInputHidden,
         weightsHiddenOutput |-> data.weightsHiddenOutput,
         biasHidden |-> data.biasHidden, biasOutput |-> data.biasOutput,
         cloneOf |-> 0])]

---------------------------------------------------------------------------
(* The calls on networks *)

InitNet ==
    /\ cfg = DefaultConfig
    /\ ga = NewGA(DefaultConfig.genetic.populationSize)
    /\ cars = <<>>
    /\ sorted = <<>>
    /\ elite = <<>>
    /\ rate = NoRate
    /\ lastOp = "init"
    /\ clicks = 0
    /\ ret = NoCall
    /\ file = NoFile
    /\ heap = EmptyHeap
    /\ game = NewGame

\* new NeuralNetwork(inputSize, hiddenSize, outputSize)
Construct ==
    /\ clicks < MaxOps
    /\ clicks' = clicks + 1
    /\ \E i \in NetSizes, hd \in NetSizes, o \in NetSizes, v \in NetWeights :
          heap' = NNConstruct(heap, i, hd, o, v)
    /\ ret' = [op |-> "new", result |-> Len(heap.net) + 1]
    /\ lastOp' = "new"
    /\ UNCHANGED <<cfg, ga, cars, sorted, elite, rate, file, game>>

\* a network's clone()
CloneCall ==
    /\ clicks < MaxOps
    /\ clicks' = clicks + 1
    /\ \E id \in DOMAIN heap.net :
          /\ heap' = NNClone(heap, id)
          /\ ret' = [op |-> "clone", this |-> id, result |-> Len(heap.net) + 1]
    /\ lastOp' = "clone"
    /\ UNCHANGED <<cfg, ga, cars, sorted, elite, rate, file, game>>

\* a network's mutate(rate), rate > 0
MutateCall ==
    /\ clicks < MaxOps
    /\ clicks' = clicks + 1
    /\ \E id \in DOMAIN heap.net :
          /\ \E c \in MutateCells(heap.net[id]) : heap' = NNMutate(heap, id, c, 1)
          /\ ret' = [op |-> "mutate", this |-> id]
    /\ lastOp' = "mutate"
    /\ UNCHANGED <<cfg, ga, cars, sorted, elite, rate, file, game>>

\* NeuralNetwork.fromJSON(c.toJSON())
RoundTrip ==
    /\ clicks < MaxOps
    /\ clicks' = clicks + 1
    /\ \E id \in DOMAIN heap.net :
          /\ heap' = FromJSON(heap, ToJSON(heap.net[id]))
          /\ ret' = [op |-> "fromJSON", this |-> id, result |-> Len(heap.net) + 1]
    /\ lastOp' = "fromJSON(toJSON)"
    /\ UNCHANGED <<cfg, ga, cars, sorted, elite, rate, file, game>>

\* the way of a network through model.json: saveModel writes
\* JSON.stringify({brain: c.toJSON()}), loadModel calls
\* NeuralNetwork.fromJSON(JSON.parse(text).brain)
SaveLoad ==
    /\ clicks < MaxOps
    /\ clicks' = clicks + 1
    /\ \E id \in DOMAIN heap.net :
          \E parsed \in {ParseBrain(heap, StringifyBrain(heap, ToJSON(heap.net[id])))} :
             /\ heap' = FromJSON(parsed.heap, parsed.data)
             /\ ret' = [op |-> "fromJSON", this |-> id, result |-> Len(heap.net) + 1]
    /\ lastOp' = "fromJSON(parse(stringify(toJSON)))"
    /\ UNCHANGED <<cfg, ga, cars, sorted, elite, rate, file, game>>

NextNet ==
    \/ Construct
    \/ CloneCall
    \/ MutateCall
    \/ RoundTrip
    \/ SaveLoad

SpecNet == InitNet /\ [][NextNet]_vars

\* NeuralNetwork.crossover(parent1, parent2) on any two networks
CrossoverCall ==
    /\ clicks < MaxOps
    /\ clicks' = clicks + 1
    /\ \E id1 \in DOMAIN heap.net, id2 \in DOMAIN heap.net :
          \E d \in [TensorNames -> 1..2] :
             \E r \in {NNCrossover(heap, id1, id2, d)} :
                /\ heap' = r.heap
                /\ ret' = [op |-> "crossover", parent1 |-> id1, parent2 |-> id2,
                            error |-> r.error,
                            result |-> IF r.error = "none" THEN Len(heap.net) + 1 ELSE 0]
    /\ lastOp' = "crossover"
    /\ UNCHANGED <<cfg, ga, cars, sorted, elite, rate, file, game>>

NextCrossover ==
    \/ Construct
    \/ CrossoverCall

SpecCrossover == InitNet /\ [][NextCrossover]_vars

---------------------------------------------------------------------------
(* Saving and loading the model.  The engine's networks are held as in the *)
(* game's specification: w stands for the sizes and the contents of the    *)
(* four arrays, ref for the arrays themselves.                             *)

TrueChars == <<"t", "r", "u", "e">>

FalseChars == <<"f", "a", "l", "s", "e">>

\* JSON.stringify and JSON.parse of a boolean
BoolToJSON(b) == IF b THEN TrueChars ELSE FalseChars

BoolFromJSON(chars) == chars = TrueChars

\* JSON.stringify of the sections of Config that saveModel writes
ConfigToJSON(c) ==
    [genetic  |-> [populationSize |-> NumberToJSON(c.genetic.populationSize),
                   mutationRate |-> NumberToJSON(c.genetic.mutationRate),
                   elitism |-> NumberToJSON(c.genetic.elitism),
                   crossoverRate |-> NumberToJSON(c.genetic.crossoverRate)],
     adaptive |-> [enabled |-> BoolToJSON(c.adaptive.enabled),
                   stagnationThreshold |-> NumberToJSON(c.adaptive.stagnationThreshold),
                   mutationBoost |-> NumberToJSON(c.adaptive.mutationBoost)],
     novelty  |-> [enabled |-> BoolToJSON(c.novelty.enabled),
                   weight |-> NumberToJSON(c.novelty.weight),
                   archiveSize |-> NumberToJSON(c.novelty.archiveSize),
                   kNeighbors |-> NumberToJSON(c.novelty.kNeighbors)],
     sharing  |-> [enabled |-> BoolToJSON(c.sharing.enabled),
                   sigma |-> NumberToJSON(c.sharing.sigma)]]

\* JSON.parse of that text; Object.assign then overwrites every field of the
\* sections of Config with it
ConfigFromJSON(t) ==
    [genetic  |-> [populationSize |-> NumberFromJSON(t.genetic.populationSize),
                   mutationRate |-> NumberFromJSON(t.genetic.mutationRate),
                   elitism |-> NumberFromJSON(t.genetic.elitism),
                   crossoverRate |-> NumberFromJSON(t.genetic.crossoverRate)],
     adaptive |-> [enabled |-> BoolFromJSON(t.adaptive.enabled),
                   stagnationThreshold |-> NumberFromJSON(t.adaptive.stagnationThreshold),
                   mutationBoost |-> NumberFromJSON(t.adaptive.mutationBoost)],
     novelty  |-> [enabled |-> BoolFromJSON(t.novelty.enabled),
                   weight |-> NumberFromJSON(t.novelty.weight),
                   archiveSize |-> NumberFromJSON(t.novelty.archiveSize),
                   kNeighbors |-> NumberFromJSON(t.novelty.kNeighbors)],
     sharing  |-> [enabled |-> BoolFromJSON(t.sharing.enabled),
                   sigma |-> NumberFromJSON(t.sharing.sigma)]]

\* a || b of JavaScript on a number: b when a is 0, null or undefined
OrElse(a, b) == IF a \in {0, JSNull, Undefined} THEN b ELSE a

\* the brain saveModel writes: this.ga.allTimeBestBrain || this.ga.bestBrain
BrainToSave(g) == IF g.allTimeBestBrain # Null THEN g.allTimeBestBrain ELSE g.bestBrain

\* JSON.stringify(saveData): the text of model.json
SaveData(g, c) ==
    [generation |-> NumberToJSON(g.generation),
     bestFitness |-> NumberToJSON(g.bestFitness),
     bestLaps |-> NumberToJSON(g.bestLaps),
     bestLapTime |-> NumberToJSON(g.bestLapTime),
     brain |-> [w |-> NumberToJSON(BrainToSave(g).w)],
     config |-> ConfigToJSON(c)]

\* the engine loadModel builds from the text of model.json under the
\* configuration c it has restored; refs are the identities of the loaded
\* brain and of its clone
LoadedEngine(text, c, refs) ==
    LET loadedBrain == NewNetwork(refs[1], NumberFromJSON(text.brain.w))
    IN  [NewGA(c.genetic.populationSize) EXCEPT
            !.allTimeBestBrain = loadedBrain,
            !.bestBrain = Clone(loadedBrain, refs[2]),
            !.bestFitness = OrElse(NumberFromJSON(text.bestFitness), 0),
            !.bestLaps = OrElse(NumberFromJSON(text.bestLaps), 0),
            !.bestLapTime = OrElse(NumberFromJSON(text.bestLapTime), Infinity)]

\* Game.saveModel
SaveModel ==
    /\ clicks < MaxClicks
    /\ clicks' = clicks + 1
    /\ IF BrainToSave(ga) = Null
       THEN /\ lastOp' = "saveModel: No model to save"
            /\ UNCHANGED file
       ELSE /\ lastOp' = "saveModel"
            /\ file' = SaveData(ga, cfg)
    /\ ret' = NoCall
    /\ UNCHANGED <<cfg, ga, cars, sorted, elite, rate, heap, game>>

\* Game.loadModel on the model.json saved last
LoadModel ==
    /\ clicks < MaxClicks
    /\ clicks' = clicks + 1
    /\ file # NoFile
    /\ \E c \in {ConfigFromJSON(file.config)} :
          /\ cfg' = c
          /\ \E g \in {LoadedEngine(file, c, Fresh(Used(ga, cars), 2))} :
                /\ ga' = g
                /\ \E ids \in {Fresh(Used(g, cars), g.populationSize)} :
                      \E ws \in [1..g.populationSize -> Weights] :
                          /\ ws \in PopulationDraws(g)'
                          /\ cars' = CreatePopulation(g, ids, ws)'
    /\ lastOp' = "loadModel"
    /\ ret' = NoCall
    /\ UNCHANGED <<sorted, elite, rate, file, heap, game>>

NextSave ==
    \/ Update
    \/ SaveModel
    \/ LoadModel

SpecSave == Init /\ [][NextSave]_vars

---------------------------------------------------------------------------
(* The shape of the networks.  In this specification a network is its      *)
(* layer sizes, a car is its sensor count and its brain, Config is its     *)
(* network section and the population size, and model.json is the text of  *)
(* those fields.                                                           *)

\* Config.network as the script defines it, and the other values the form's
\* hiddenSize and sensorCount inputs are given
DefaultNetwork == [hiddenSize |-> 6, sensorCount |-> 3]

Networks == {DefaultNetwork,
             [hiddenSize |-> 14, sensorCount |-> 3],
             [hiddenSize |-> 6, sensorCount |-> 7]}

NoBrain == [inputSize |-> 0, hiddenSize |-> 0]

\* Config.getInputSize
GetInputSize(c) == c.network.sensorCount + 3

\* Car's constructor: the sensors come from Config, the brain is the one
\* given or a new network of Config's sizes
CarWithBrain(c, brain) ==
    [sensorCount |-> c.network.sensorCount,
     brain |-> IF brain # NoBrain THEN brain
               ELSE [inputSize |-> c.network.sensorCount + 3,
                     hiddenSize |-> c.network.hiddenSize]]

\* the engine: new GeneticAlgorithm(populationSize), also what reset leaves
ShapeGA(populationSize) ==
    [populationSize |-> populationSize, generation |-> 1, allTimeBestBrain |-> NoBrain]

\* createPopulation: clones of the all-time-best brain when there is one
ShapePopulation(g, c) ==
    Array([i \in 1..g.populationSize |-> CarWithBrain(c, g.allTimeBestBrain)])

\* checkNetworkStructureChanged
NetworkStructureChanged(g, c) ==
    IF g.allTimeBestBrain = NoBrain THEN FALSE
    ELSE \/ g.allTimeBestBrain.inputSize # GetInputSize(c)
         \/ g.allTimeBestBrain.hiddenSize # c.network.hiddenSize

InitShape ==
    /\ cfg = [network |-> DefaultNetwork, genetic |-> [populationSize |-> MaxPop]]
    /\ ga = ShapeGA(MaxPop)
    /\ cars = ShapePopulation(ShapeGA(MaxPop),
                              [network |-> DefaultNetwork,
                               genetic |-> [populationSize |-> MaxPop]])
    /\ sorted = <<>>
    /\ elite = <<>>
    /\ rate = NoRate
    /\ lastOp = "init"
    /\ clicks = 0
    /\ ret = NoCall
    /\ file = NoFile
    /\ heap = <<>>
    /\ game = NewGame

\* Game.update when every car is dead: evolve.  selection keeps a clone of
\* the best car's brain as all-time best when there was none or the best
\* fitness is a record; every new car gets the clone of an elite's brain or
\* the child of two elites, which has the sizes of its first parent, and
\* its sensors from Config.  With Math.max(4, ...) every car is an elite.
ShapeEvolve ==
    /\ ga.generation < MaxGen + 1
    /\ cars # <<>>
    /\ \E best \in DOMAIN cars, record \in BOOLEAN :
          ga' = [ga EXCEPT !.generation = @ + 1,
                           !.allTimeBestBrain =
                               IF @ = NoBrain \/ record THEN cars[best].brain ELSE @]
    /\ \E parents \in [1..ga.populationSize -> DOMAIN cars] :
          cars' = Array([i \in 1..ga.populationSize |->
                            CarWithBrain(cfg, cars[parents[i]].brain)])
    /\ lastOp' = "evolve"
    /\ UNCHANGED <<cfg, sorted, elite, rate, clicks, ret, file, heap, game>>

\* Game.applyConfig with the network's sizes read from the form
ShapeApplyConfig ==
    /\ clicks < MaxClicks + 2
    /\ clicks' = clicks + 1
    /\ \E n \in Networks, p \in 1..MaxPop :
          \E c \in {[network |-> n, genetic |-> [populationSize |-> p]]} :
             \E g \in {IF NetworkStructureChanged(ga, c)
                       THEN ShapeGA(p)
                       ELSE [ga EXCEPT !.populationSize = p]} :
                /\ cfg' = c
                /\ ga' = g
                /\ cars' = ShapePopulation(g, c)
                /\ lastOp' = IF NetworkStructureChanged(ga, c)
                             THEN "applyConfig, new engine" ELSE "applyConfig"
    /\ UNCHANGED <<sorted, elite, rate, ret, file, heap, game>>

\* the Reset Config button: Config.resetToDefaults and clearConfigChanged;
\* the engine and the cars are not touched
ResetConfig ==
    /\ clicks < MaxClicks + 2
    /\ clicks' = clicks + 1
    /\ cfg' = [network |-> DefaultNetwork, genetic |-> [populationSize |-> MaxPop]]
    /\ lastOp' = "resetToDefaults"
    /\ UNCHANGED <<ga, cars, sorted, elite, rate, ret, file, heap, game>>

\* Game.reset
ShapeReset ==
    /\ clicks < MaxClicks + 2
    /\ clicks' = clicks + 1
    /\ ga' = ShapeGA(cfg.genetic.populationSize)
    /\ cars' = ShapePopulation(ShapeGA(cfg.genetic.populationSize), cfg)
    /\ lastOp' = "reset"
    /\ UNCHANGED <<cfg, sorted, elite, rate, ret, file, heap, game>>

\* Game.saveModel: the best brain's toJSON and Config's sections
ShapeSaveModel ==
    /\ clicks < MaxClicks + 2
    /\ clicks' = clicks + 1
    /\ IF ga.allTimeBestBrain = NoBrain
       THEN /\ lastOp' = "saveModel: No model to save"
            /\ UNCHANGED file
       ELSE /\ lastOp' = "saveModel"
            /\ file' = [brain |-> [inputSize |-> NumberToJSON(ga.allTimeBestBrain.inputSize),
                                   hiddenSize |-> NumberToJSON(ga.allTimeBestBrain.hiddenSize)],
                        config |-> [network |-> [hiddenSize |-> NumberToJSON(cfg.network.hiddenSize),
                                                 sensorCount |-> NumberToJSON(cfg.network.sensorCount)],
                                    genetic |-> [populationSize |->
                                                     NumberToJSON(cfg.genetic.populationSize)]]]
    /\ UNCHANGED <<cfg, ga, cars, sorted, elite, rate, ret, heap, game>>

\* Game.loadModel on the model.json saved last: Config's sections are
\* overwritten with the file's, the brain is built by fromJSON with the
\* file's sizes, and the population is created from it with no comparison
\* of the two
ShapeLoadModel ==
    /\ clicks < MaxClicks + 2
    /\ clicks' = clicks + 1
    /\ file # NoFile
    /\ \E c \in {[network |-> [hiddenSize |-> NumberFromJSON(file.config.network.hiddenSize),
                               sensorCount |-> NumberFromJSON(file.config.network.sensorCount)],
                  genetic |-> [populationSize |->
                                   NumberFromJSON(file.config.genetic.populationSize)]]} :
          \E g \in {[ShapeGA(c.genetic.populationSize) EXCEPT
                        !.allTimeBestBrain =
                            [inputSize |-> NumberFromJSON(file.brain.inputSize),
                             hiddenSize |-> NumberFromJSON(file.brain.hiddenSize)]]} :
             /\ cfg' = c
             /\ ga' = g
             /\ cars' = ShapePopulation(g, c)
    /\ lastOp' = "loadModel"
    /\ UNCHANGED <<sorted, elite, rate, ret, file, heap, game>>

NextShape ==
    \/ ShapeEvolve
    \/ ShapeApplyConfig
    \/ ResetConfig
    \/ ShapeReset
    \/ ShapeSaveModel
    \/ ShapeLoadModel

SpecShape == InitShape /\ [][NextShape]_vars

---------------------------------------------------------------------------
(* Game.update one call at a time: the cars die over several calls and     *)
(* evolve runs in the call that finds them all dead.                       *)

\* Car.update answers nothing; StillAlive stands for a call that leaves
\* the car alive
StillAlive == [fitness |-> 0, laps |-> 0, bestLapTime |-> Infinity,
               x |-> 0, checkpointsPassed |-> 0, totalDistance |-> 0,
               alive |-> TRUE]

\* the cars after `for (const car of this.cars) car.update(...)`: a dead car
\* is left as it is, a living one goes on or dies with one of the outcomes
UpdatedCars(cs, os) ==
    Array([i \in DOMAIN cs |->
              IF cs[i].alive /\ os[i] # StillAlive THEN Terminal(cs[i], os[i]) ELSE cs[i]])

\* a checkLapCompletion that unlocks the track after the next one
CheckLapCompletionSkips(g, cs) ==
    IF (\E i \in DOMAIN cs : cs[i].laps > 0) /\ ~g.lapCompleted
    THEN [g EXCEPT !.lapCompleted = TRUE,
                   !.unlockedTracks =
                       IF /\ g.currentTrackNumber + 2 <= 4
                          /\ \A k \in DOMAIN @ : @[k] # g.currentTrackNumber + 2
                       THEN Append(@, g.currentTrackNumber + 2)
                       ELSE @]
    ELSE g

\* Game.checkLapCompletion: the first time a car has a lap, lapCompleted is
\* set and the track after the current one is unlocked
CheckLapCompletion(g, cs) ==
    IF (\E i \in DOMAIN cs : cs[i].laps > 0) /\ ~g.lapCompleted
    THEN [g EXCEPT !.lapCompleted = TRUE,
                   !.unlockedTracks =
                       IF /\ g.currentTrackNumber + 1 <= 4
                          /\ \A k \in DOMAIN @ : @[k] # g.currentTrackNumber + 1
                       THEN Append(@, g.currentTrackNumber + 1)
                       ELSE @]
    ELSE g

\* this.cars = this.ga.evolve(this.cars, this.track) on the dead cars
EvolveCars(dead) ==
    \E sel \in {Selection(ga, dead)} :
       \E n \in {ElitismCount(sel.ga, sel.elite)} :
          \E ids \in {Fresh(Used(sel.ga, dead), n + FillCount(sel.ga, n))} :
             /\ \E children \in [1..FillCount(sel.ga, n) -> ChildBrains(sel.ga, sel.elite)] :
                    cars' = NewCars(sel.ga, sel.elite, ids, children)
             /\ ga' = IncrementGeneration(sel.ga)
             /\ sorted' = sel.sorted
             /\ elite' = sel.elite

\* Game.update, one call
Tick ==
    /\ ga.generation < MaxGen
    /\ cars # <<>>
    /\ \E os \in [DOMAIN cars -> Outcomes \cup {StillAlive}] :
          \E updated \in {UpdatedCars(cars, os)} :
             /\ \A i \in DOMAIN cars : ~cars[i].alive => os[i] = StillAlive
             /\ game' = CheckLapCompletion(game, updated)
             /\ IF AllDead(updated)
                THEN /\ EvolveCars(updated)
                     /\ lastOp' = "evolve"
                ELSE /\ cars' = updated
                     /\ lastOp' = "update"
                     /\ UNCHANGED <<ga, sorted, elite>>
    /\ ret' = NoCall
    /\ UNCHANGED <<cfg, rate, clicks, file, heap>>

\* Game.reset between two calls of update
TickReset ==
    /\ Reset
    /\ UNCHANGED game

NextTick ==
    \/ Tick
    \/ TickReset

SpecTick == Init /\ [][NextTick]_vars

---------------------------------------------------------------------------
(* evolve over a run of generations long enough for the stagnation counter *)
(* to pass twice the threshold.  The configuration is one the form can     *)
(* give; the cars of a generation all end the same way.                    *)

StagnantConfigs ==
    { [DefaultConfig EXCEPT !.genetic.mutationRate = 15,
                            !.adaptive = [enabled |-> e, stagnationThreshold |-> t,
                                          mutationBoost |-> 30]] :
        e \in BOOLEAN, t \in 1..MaxThreshold }

InitStagnant ==
    /\ cfg \in StagnantConfigs
    /\ ga = NewGA(cfg.genetic.populationSize)
    /\ \E ws \in PopulationDraws(NewGA(cfg.genetic.populationSize)) :
          cars = CreatePopulation(NewGA(cfg.genetic.populationSize),
                                  Fresh({}, cfg.genetic.populationSize), ws)
    /\ sorted = <<>>
    /\ elite = <<>>
    /\ rate = NoRate
    /\ lastOp = "init"
    /\ clicks = 0
    /\ ret = NoCall
    /\ file = NoFile
    /\ heap = <<>>
    /\ game = NewGame

\* evolve(cars, track) on a population whose cars have all died
EvolveCall ==
    /\ ga.generation <= MaxStagnation
    /\ \E o \in Outcomes :
          \E dead \in {Array([i \in DOMAIN cars |-> Terminal(cars[i], o)])} :
             EvolveCars(dead)
    /\ lastOp' = "evolve"
    /\ ret' = [op |-> "evolve", mutationRate |-> GetCurrentMutationRate(ga')]
    /\ UNCHANGED <<cfg, rate, clicks, file, heap, game>>

NextStagnant == EvolveCall

SpecStagnant == InitStagnant /\ [][NextStagnant]_vars

---------------------------------------------------------------------------
(* The training loop.  game.pending is the number of animation-frame       *)
(* callbacks requested and not yet run; the browser runs the callbacks     *)
(* requested before a frame one after the other when it displays the       *)
(* frame, and no event handler runs between them.  What the update calls   *)
(* do to the cars is the matter of Tick: here ret counts them.             *)

MaxLoopClicks == MaxClicks + 3

\* loop() called n times in a row on the game g: each call that finds the
\* game running makes `speed` update calls and requests one animation frame
Loop(g, n) ==
    IF g.running
    THEN [game |-> [g EXCEPT !.pending = @ + n], updates |-> n * g.speed]
    ELSE [game |-> g, updates |-> 0]

\* the Start/Pause button, which the space bar clicks too
StartClick ==
    /\ clicks < MaxLoopClicks
    /\ clicks' = clicks + 1
    /\ \E r \in {Loop([game EXCEPT !.running = ~@], 1)} :
          /\ game' = r.game
          /\ ret' = [op |-> "startBtn click", updates |-> r.updates]
    /\ lastOp' = "startBtn click"
    /\ UNCHANGED <<cfg, ga, cars, sorted, elite, rate, file, heap>>

\* the browser displays a frame: the callbacks requested so far run
AnimationFrame ==
    /\ game.pending > 0
    /\ \E r \in {Loop([game EXCEPT !.pending = 0], game.pending)} :
          /\ game' = r.game
          /\ ret' = [op |-> "frame", updates |-> r.updates]
    /\ lastOp' = "frame"
    /\ UNCHANGED <<cfg, ga, cars, sorted, elite, rate, clicks, file, heap>>

\* the index of the speed v in Speeds
SpeedIndex(v) == CHOOSE i \in DOMAIN Speeds : Speeds[i] = v

\* the speed button, which the keys + and = click too
SpeedClick ==
    /\ clicks < MaxLoopClicks
    /\ clicks' = clicks + 1
    /\ game' = [game EXCEPT !.speed = Speeds[(SpeedIndex(@) % Len(Speeds)) + 1]]
    /\ lastOp' = "speedBtn click"
    /\ ret' = NoCall
    /\ UNCHANGED <<cfg, ga, cars, sorted, elite, rate, file, heap>>

\* the key -: speeds[Math.max(0, idx - 1)]
MinusKey ==
    /\ clicks < MaxLoopClicks
    /\ clicks' = clicks + 1
    /\ game' = [game EXCEPT !.speed = Speeds[Max(1, SpeedIndex(@) - 1)]]
    /\ lastOp' = "keydown -"
    /\ ret' = NoCall
    /\ UNCHANGED <<cfg, ga, cars, sorted, elite, rate, file, heap>>

\* the engine and the population a handler builds with new
\* GeneticAlgorithm(populationSize), reset() and createPopulation(track)
NewEngine ==
    /\ ga' = ResetGA(NewGA(cfg.genetic.populationSize))
    /\ \E ws \in PopulationDraws(NewGA(cfg.genetic.populationSize)) :
          cars' = CreatePopulation(NewGA(cfg.genetic.populationSize),
                                   Fresh(Used(ga, cars), cfg.genetic.populationSize), ws)
    /\ sorted' = <<>>
    /\ elite' = <<>>

\* Game.reset from the Reset button
LoopReset ==
    /\ Reset
    /\ game' = [game EXCEPT !.running = FALSE]

\* Game.toggleDrawMode: entering the mode pauses the game, leaving it with
\* more than two points drawn builds the track and a new engine
ToggleDrawMode ==
    /\ clicks < MaxLoopClicks
    /\ clicks' = clicks + 1
    /\ IF ~game.isDrawing
       THEN /\ game' = [game EXCEPT !.isDrawing = TRUE, !.running = FALSE]
            /\ UNCHANGED <<ga, cars, sorted, elite>>
       ELSE /\ game' = [game EXCEPT !.isDrawing = FALSE]
            /\ \/ NewEngine
               \/ UNCHANGED <<ga, cars, sorted, elite>>
    /\ lastOp' = "toggleDrawMode"
    /\ ret' = NoCall
    /\ UNCHANGED <<cfg, rate, file, heap>>

\* Game.toggleSetStartMode: entering the mode pauses the game
ToggleSetStartMode ==
    /\ clicks < MaxLoopClicks
    /\ clicks' = clicks + 1
    /\ game' = [game EXCEPT !.isSettingStart = ~@,
                            !.running = IF ~game.isSettingStart THEN FALSE ELSE @]
    /\ lastOp' = "toggleSetStartMode"
    /\ ret' = NoCall
    /\ UNCHANGED <<cfg, ga, cars, sorted, elite, rate, file, heap>>

NextLoop ==
    \/ StartClick
    \/ AnimationFrame
    \/ SpeedClick
    \/ MinusKey
    \/ LoopReset
    \/ ToggleDrawMode
    \/ ToggleSetStartMode

SpecLoop == Init /\ [][NextLoop]_vars

---------------------------------------------------------------------------
(* The track progression.  BUILT_IN_TRACKS is defined outside these files: *)
(* loadTrackByNumber finds the track's data in it or does not.             *)

TrackNumbers == 1..4

MaxTrackClicks == MaxClicks + 2

\* Game.loadTrackByNumber(trackNumber)
LoadTrackByNumber(trackNumber) ==
    \/ /\ NewEngine
       /\ game' = [game EXCEPT !.currentTrackNumber = trackNumber,
                               !.lapCompleted = FALSE]
       /\ lastOp' = "loadTrackByNumber"
    \/ /\ lastOp' = "loadTrackByNumber: not found"
       /\ UNCHANGED <<ga, cars, sorted, elite, game>>

\* a track selection button
TrackButtonClick ==
    /\ clicks < MaxTrackClicks
    /\ clicks' = clicks + 1
    /\ \E trackNum \in TrackNumbers :
          IF \E k \in DOMAIN game.unlockedTracks : game.unlockedTracks[k] = trackNum
          THEN LoadTrackByNumber(trackNum)
          ELSE /\ lastOp' = "trackBtn click: locked"
               /\ UNCHANGED <<ga, cars, sorted, elite, game>>
    /\ ret' = NoCall
    /\ UNCHANGED <<cfg, rate, file, heap>>

\* the Next Track button: unlockNextTrack when a lap was completed on a
\* track before the fourth
NextTrackClick ==
    /\ clicks < MaxTrackClicks
    /\ clicks' = clicks + 1
    /\ IF game.lapCompleted /\ game.currentTrackNumber < 4
       THEN \/ /\ NewEngine
               /\ game' = [game EXCEPT !.currentTrackNumber = @ + 1,
                                       !.lapCompleted = FALSE]
               /\ lastOp' = "unlockNextTrack"
            \/ /\ game' = [game EXCEPT !.lapCompleted = FALSE]
               /\ lastOp' = "unlockNextTrack: not found"
               /\ UNCHANGED <<ga, cars, sorted, elite>>
       ELSE /\ lastOp' = "nextTrackBtn click: not ready"
            /\ UNCHANGED <<ga, cars, sorted, elite, game>>
    /\ ret' = NoCall
    /\ UNCHANGED <<cfg, rate, file, heap>>

NextTracks ==
    \/ Tick
    \/ TrackButtonClick
    \/ NextTrackClick

\* the game after its constructor has loaded track 1 and the form was
\* applied with a car count of 1
InitTracks ==
    /\ cfg = [DefaultConfig EXCEPT !.genetic.populationSize = 1]
    /\ ga = NewGA(1)
    /\ \E ws \in PopulationDraws(NewGA(1)) :
          cars = CreatePopulation(NewGA(1), Fresh({}, 1), ws)
    /\ sorted = <<>>
    /\ elite = <<>>
    /\ rate = NoRate
    /\ lastOp = "init"
    /\ clicks = 0
    /\ ret = NoCall
    /\ file = NoFile
    /\ heap = <<>>
    /\ game = NewGame

SpecTracks == InitTracks /\ [][NextTracks]_vars

---------------------------------------------------------------------------
(* Car.update on one car.  The car is the fields update and                *)
(* checkCheckpoints count with; the physics gives, frame by frame, whether *)
(* the car crossed its next checkpoint in the right direction, whether it  *)
(* hit a wall and whether it moved since the last stuck detection.         *)

\* new Car(x, y, angle, brain), and Car.reset
CarAtStart ==
    [alive |-> TRUE, checkpointIndex |-> 0, checkpointsPassed |-> 0, laps |-> 0,
     lapTimes |-> <<>>, currentLapTime |-> 0, bestLapTime |-> Infinity,
     frameCount |-> 0, stuckCounter |-> 0, finishedLap |-> FALSE]

\* checkCheckpoints(checkpoints) on a list of total checkpoints
CheckCheckpoints(c, total, crossed) ==
    IF total = 0 \/ ~crossed THEN c
    ELSE LET passed == [c EXCEPT !.checkpointsPassed = @ + 1, !.stuckCounter = 0,
                                 !.checkpointIndex = @ + 1]
         IN  IF passed.checkpointIndex >= total
             THEN [passed EXCEPT
                      !.checkpointIndex = 0,
                      !.laps = @ + 1,
                      !.lapTimes = IF passed.currentLapTime > 0
                                   THEN Append(@, passed.currentLapTime) ELSE @,
                      !.bestLapTime = IF /\ passed.currentLapTime > 0
                                         /\ passed.currentLapTime < @
                                      THEN passed.currentLapTime ELSE @,
                      !.currentLapTime = 0,
                      !.finishedLap = TRUE]
             ELSE passed

\* the stuck detection of update, every StuckPeriod frames
StuckDetection(c, moved) ==
    IF c.frameCount % StuckPeriod = 0
    THEN [c EXCEPT !.stuckCounter = IF ~moved THEN @ + 1 ELSE Max(0, @ - 1)]
    ELSE c

\* an update that lets a car that finished its lap go on
CarUpdateGoesOn(c, total, crossed, collided, moved) ==
    IF ~c.alive THEN c
    ELSE LET counted == [c EXCEPT !.frameCount = @ + 1, !.currentLapTime = @ + 1]
             checked == CheckCheckpoints(StuckDetection(counted, moved), total, crossed)
         IN  [checked EXCEPT !.alive = ~(collided \/ checked.stuckCounter > StuckLimit)]

\* update(walls, checkpoints)
CarUpdate(c, total, crossed, collided, moved) ==
    IF ~c.alive THEN c
    ELSE LET counted == [c EXCEPT !.frameCount = @ + 1, !.currentLapTime = @ + 1]
             checked == CheckCheckpoints(StuckDetection(counted, moved), total, crossed)
         IN  [checked EXCEPT !.alive = ~(\/ collided
                                         \/ checked.stuckCounter > StuckLimit
                                         \/ checked.finishedLap)]

InitCar ==
    /\ cfg = DefaultConfig
    /\ ga = NewGA(DefaultConfig.genetic.populationSize)
    /\ cars = <<CarAtStart>>
    /\ sorted = <<>>
    /\ elite = <<>>
    /\ rate = NoRate
    /\ lastOp = "init"
    /\ clicks = 0
    /\ ret = NoCall
    /\ file = NoFile
    /\ heap = <<>>
    /\ \E total \in 1..MaxCheckpoints : game = [NewGame EXCEPT !.checkpoints = total]

\* car.update(this.track.walls, this.track.checkpoints)
UpdateCall ==
    /\ cars[1].frameCount < MaxFrames
    /\ \E crossed, collided, moved \in BOOLEAN :
          /\ cars' = <<CarUpdate(cars[1], game.checkpoints, crossed, collided, moved)>>
          /\ ret' = [op |-> "update", wasAlive |-> cars[1].alive]
    /\ lastOp' = "car.update"
    /\ UNCHANGED <<cfg, ga, sorted, elite, rate, clicks, file, heap, game>>

\* car.reset()
ResetCall ==
    /\ clicks < MaxClicks
    /\ clicks' = clicks + 1
    /\ cars' = <<CarAtStart>>
    /\ lastOp' = "car.reset"
    /\ ret' = NoCall
    /\ UNCHANGED <<cfg, ga, sorted, elite, rate, file, heap, game>>

NextCar ==
    \/ UpdateCall
    \/ ResetCall

SpecCar == InitCar /\ [][NextCar]_vars

---------------------------------------------------------------------------
(* The claims.  After an Update step, sorted' and elite' are what the      *)
(* selection call inside evolve computed, cars holds the agents evolve was *)
(* given, in their order, and cars' is the population evolve returned.     *)

\* the ranking key the configuration makes active
ActiveKey(car) ==
    IF cfg.novelty.enabled THEN Rat(car.combinedScore, CombinedScale)
    ELSE IF cfg.sharing.enabled THEN car.sharedFitness
    ELSE Rat(car.fitness, 1)

\* the place of the agent id in the population cs
Pos(cs, id) == CHOOSE i \in DOMAIN cs : cs[i].id = id

\* a ranks before b in the population cs ordered descending by the active
\* key, agents of equal key in their order in cs
RanksBefore(cs, a, b) ==
    \/ RatLess(ActiveKey(b), ActiveKey(a))
    \/ RatEq(ActiveKey(a), ActiveKey(b)) /\ Pos(cs, a.id) < Pos(cs, b.id)

\* the engine was constructed or reset by the step
EngineRestarted == lastOp' \in {"reset", "applyConfig, new engine"}

(* C1: after evolve has returned, the population holds exactly the engine's *)
(* populationSize agents and none of them is an agent of the population    *)
(* evolve was given, whatever the elitism count and also when              *)
(* populationSize was changed after that population was created.           *)
C1_EvolveReturnsPopulationSize ==
    lastOp = "evolve" =>
        /\ Len(cars) = ga.populationSize
        /\ \A i \in DOMAIN cars : \A j \in DOMAIN sorted : cars[i].id # sorted[j].id

C3_GenerationCounts ==
    /\ ga.generation = 1
    /\ [][ga'.generation = IF EngineRestarted THEN 1
                           ELSE IF lastOp' = "evolve" THEN ga.generation + 1
                           ELSE ga.generation]_vars

\* two evolve calls have completed
C3_Witness == lastOp = "evolve" /\ ga.generation = 3

(* C4: between resets bestFitness and bestLaps never decrease and          *)
(* bestLapTime never increases, whichever ranking key is active.           *)
C4_RecordsMonotone ==
    [][~EngineRestarted =>
          /\ ga'.bestFitness >= ga.bestFitness
          /\ ga'.bestLaps >= ga.bestLaps
          /\ ga'.bestLapTime <= ga.bestLapTime]_vars

\* a selection whose best agent is below every record
C4_Witness ==
    /\ lastOp = "evolve"
    /\ sorted[1].fitness < ga.bestFitness
    /\ sorted[1].laps < ga.bestLaps
    /\ sorted[1].bestLapTime > ga.bestLapTime

(* C5: given a population of N agents by an engine whose populationSize is *)
(* N, selection returns min(N, max(4, floor(0.25 * N))) agents, at least   *)
(* min(4, N), which are distinct members of the population and are the     *)
(* leading agents of the population ordered descending by the active       *)
(* ranking key: the i-th returned agent has exactly i - 1 agents ranking   *)
(* before it.                                                              *)
C5_EliteLeadsByActiveKey ==
    [][lastOp' = "evolve" /\ Len(cars) = ga.populationSize =>
          LET N == Len(cars)
              ids == {cars[i].id : i \in DOMAIN cars}
          IN  /\ Len(elite') = Min(N, Max(4, (25 * N) \div 100))
              /\ Len(elite') >= Min(4, N)
              /\ \A i \in DOMAIN elite' : elite'[i].id \in ids
              /\ \A i, j \in DOMAIN elite' : i # j => elite'[i].id # elite'[j].id
              /\ \A i \in DOMAIN elite' :
                    Cardinality({j \in DOMAIN sorted' :
                                    RanksBefore(cars, sorted'[j], elite'[i])}) = i - 1]_vars

(* C6: selection orders the population descending by the active ranking    *)
(* key (combinedScore under novelty search, else sharedFitness under       *)
(* fitness sharing, else raw fitness) for every pair of agents, a key of 0 *)
(* included, and agents of equal key keep their order in the population.   *)
C6_SortedByActiveKey ==
    [][lastOp' = "evolve" =>
          \A i, j \in DOMAIN sorted' :
              i < j => RanksBefore(cars, sorted'[i], sorted'[j])]_vars

(* C7: from a fresh or reset engine, as long as the best raw fitness       *)
(* values of the selection calls form a non-increasing sequence, each call *)
(* adds 1 to the stagnation counter.  The counter equals the number of     *)
(* calls made so far, generation - 1, exactly when every earlier call has  *)
(* added 1 to it.                                                          *)
C7_PlateauCountsUp ==
    [][/\ lastOp' = "evolve"
       /\ ga.stagnationCounter = ga.generation - 1
       /\ ga.generation = 1 \/ ga'.lastBestFitness <= ga.lastBestFitness
       => ga'.stagnationCounter = ga.stagnationCounter + 1]_vars

(* C8, as stated: a selection call whose best raw fitness is strictly      *)
(* greater than that of the previous call leaves the stagnation counter    *)
(* at 0.                                                                   *)
C8_IncreaseResets ==
    [][/\ lastOp' = "evolve"
       /\ ga.generation > 1
       /\ ga'.lastBestFitness > ga.lastBestFitness
       => ga'.stagnationCounter = 0]_vars

(* C8, amended: a selection call whose best raw fitness is greater than    *)
(* 1.01 times that of the previous call (0 before the first call) leaves   *)
(* the stagnation counter at 0.                                            *)
C8_IncreaseBeyondToleranceResets ==
    [][/\ lastOp' = "evolve"
       /\ 100 * ga'.lastBestFitness > 101 * ga.lastBestFitness
       => ga'.stagnationCounter = 0]_vars

\* the second call's best, 100, is above the first call's, which counted up
C8_Witness ==
    /\ lastOp = "evolve"
    /\ ga.generation = 3
    /\ ga.lastBestFitness = 100
    /\ ga.bestFitness = 100
    /\ ga.stagnationCounter = 0

\* getCurrentMutationRate when the stagnation counter is c
RateAt(c) == GetCurrentMutationRate([ga EXCEPT !.stagnationCounter = c])

(* C9: getCurrentMutationRate returns min(base, 0.8) without adaptive      *)
(* mutation and min(base + min(counter / threshold, 1) * boost, 0.8) with  *)
(* it; the result never exceeds 0.8, never decreases when the counter      *)
(* grows, is the same for every counter from the threshold on, and the     *)
(* call changes neither the engine nor the configuration.                  *)
C9_MutationRate ==
    /\ [](/\ lastOp = "getCurrentMutationRate" =>
                LET b == cfg.genetic.mutationRate
                    t == cfg.adaptive.stagnationThreshold
                    c == Min(ga.stagnationCounter, t)
                    \* base + (c / t) * boost and the cap, both times t
                    boosted == b * t + c * cfg.adaptive.mutationBoost
                    cap == RateCap * t
                IN  IF cfg.adaptive.enabled
                    THEN rate.n * t = Min(boosted, cap) * rate.d
                    ELSE rate.n = Min(b, RateCap) * rate.d
          /\ \A c \in 0..MaxStagnation : ~RatLess(Rat(RateCap, 1), RateAt(c))
          /\ \A c1, c2 \in 0..MaxStagnation :
                c1 <= c2 => ~RatLess(RateAt(c2), RateAt(c1))
          /\ \A c \in 0..MaxStagnation :
                c >= cfg.adaptive.stagnationThreshold =>
                    RatEq(RateAt(c), RateAt(cfg.adaptive.stagnationThreshold)))
    /\ [][lastOp' = "getCurrentMutationRate" => UNCHANGED <<cfg, ga>>]_vars

\* a rate read past the threshold, where base + boost is above the cap
C9_Witness ==
    /\ lastOp = "getCurrentMutationRate"
    /\ cfg.adaptive.enabled
    /\ ga.stagnationCounter > cfg.adaptive.stagnationThreshold
    /\ cfg.genetic.mutationRate + cfg.adaptive.mutationBoost > RateCap
    /\ cfg.genetic.mutationRate < RateCap
    /\ RatEq(rate, Rat(RateCap, 1))

(* C10: after an evolve call whose selection offered every agent to the    *)
(* novelty archive with maybeAdd, the archive holds at most the configured *)
(* archiveSize entries.                                                    *)
C10_ArchiveWithinSize ==
    lastOp = "evolve" /\ cfg.novelty.enabled =>
        Len(ga.noveltyArchive) <= cfg.novelty.archiveSize

(* C11: the novelty archive is a FIFO queue.  A behaviour that maybeAdd     *)
(* admits goes to the end of the archive; when the archive would then hold *)
(* more than archiveSize entries exactly one entry leaves it, the one      *)
(* admitted earliest, which for archiveSize >= 1 is not the one just       *)
(* admitted; the entries that stay keep their order.  A behaviour that is  *)
(* not admitted leaves the archive as it was.                              *)
C11_ArchiveIsFIFO ==
    [][lastOp' = "maybeAdd" =>
          LET old == ga.noveltyArchive
              new == ga'.noveltyArchive
              pushed == Append(old, ret'.behavior)
          IN  IF ~ret'.admitted THEN new = old
              ELSE IF Len(pushed) <= cfg.novelty.archiveSize THEN new = pushed
              ELSE /\ Len(new) = Len(pushed) - 1
                   /\ \A i \in DOMAIN new : new[i] = pushed[i + 1]
                   /\ cfg.novelty.archiveSize >= 1 =>
                          new # <<>> /\ new[Len(new)] = ret'.behavior]_vars

\* a full archive of two different entries received a third: the older one
\* left, though the entry that stays is the one equal to the newcomer
C11_Witness ==
    /\ lastOp = "maybeAdd"
    /\ ret.admitted
    /\ cfg.novelty.archiveSize = 2
    /\ Len(ret.before) = 2
    /\ ret.before[1] # ret.before[2]
    /\ ret.behavior = ret.before[2]
    /\ ga.noveltyArchive = <<ret.before[2], ret.behavior>>

\* a behaviour of novelty 0 was offered to an archive of ten and turned away
C11_WitnessTurnedAway ==
    /\ lastOp = "maybeAdd"
    /\ ~ret.admitted
    /\ Len(ret.before) >= BootstrapCount
    /\ ga.noveltyArchive = ret.before

(* C12: tournamentSelect on a non-empty elite pool draws min(4, |elite|)   *)
(* candidates from the pool and returns a member of the pool, one of the   *)
(* candidates drawn, whose active ranking key (combinedScore under novelty *)
(* search, sharedFitness under fitness sharing without novelty, raw        *)
(* fitness otherwise) is not below that of any candidate drawn; from a     *)
(* pool of one it returns that one.                                        *)
C12_TournamentByActiveKey ==
    lastOp = "tournamentSelect" =>
        /\ Len(ret.picks) = Min(4, Len(elite))
        /\ \A k \in DOMAIN ret.picks : ret.picks[k] \in DOMAIN elite
        /\ \E k \in DOMAIN ret.picks : ret.winner = elite[ret.picks[k]]
        /\ \A k \in DOMAIN ret.picks :
              ~RatLess(ActiveKey(ret.winner), ActiveKey(elite[ret.picks[k]]))
        /\ Len(elite) = 1 => ret.winner = elite[1]

(* C13: a selection call replaces the all-time-best controller by a new    *)
(* clone of the top-ranked agent's controller (equal weights, a network    *)
(* object that no agent of the population and no earlier record holds, no  *)
(* mutate call received) whenever there was none or that agent's raw       *)
(* fitness is at least the recorded best fitness, and leaves it as it was  *)
(* otherwise; a snapshot that replaces an earlier one is never of an agent *)
(* whose raw fitness is below the best fitness recorded when it is stored. *)
C13_AllTimeBestSnapshot ==
    [][lastOp' = "evolve" =>
          LET top == sorted'[1]
              new == ga'.allTimeBestBrain
          IN  /\ IF ga.allTimeBestBrain = Null \/ top.fitness >= ga.bestFitness
                 THEN /\ new # Null
                      /\ new.w = top.brain.w
                      /\ new.mutated = <<>>
                      /\ \A j \in DOMAIN sorted' : new.ref # sorted'[j].brain.ref
                      /\ new.ref \notin BrainRefs(ga)
                      /\ new.ref # ga'.bestBrain.ref
                 ELSE new = ga.allTimeBestBrain
              /\ ga.allTimeBestBrain # Null /\ new # ga.allTimeBestBrain
                     => top.fitness >= ga'.bestFitness]_vars

\* the second selection left the snapshot of the first, whose weights differ
\* from those of the agent now ranked first
C13_Witness ==
    /\ lastOp = "evolve"
    /\ ga.generation = 3
    /\ sorted[1].fitness < ga.bestFitness
    /\ ga.allTimeBestBrain # Null
    /\ ga.allTimeBestBrain.w # sorted[1].brain.w

\* the sizes of two networks are the same
SameSizes(a, b) ==
    a.inputSize = b.inputSize /\ a.hiddenSize = b.hiddenSize
        /\ a.outputSize = b.outputSize

\* some cell of the network n is undefined
HasUndefined(h, n) ==
    LET t == Tensors(h, n)
    IN  \/ \E a \in {"weightsInputHidden", "weightsHiddenOutput"} :
              \E i \in DOMAIN t[a] : \E j \in DOMAIN t[a][i] : t[a][i][j] = Undefined
        \/ \E a \in {"biasHidden", "biasOutput"} :
              \E i \in DOMAIN t[a] : t[a][i] = Undefined

(* C14: NeuralNetwork.crossover called with two parents that differ in     *)
(* inputSize, hiddenSize or outputSize fails with a dimension-mismatch     *)
(* error and returns no controller: never a child cut to one parent's      *)
(* shape, never a child with undefined weights.                            *)
C14_CrossoverRejectsMismatch ==
    lastOp = "crossover"
        /\ ~SameSizes(heap.net[ret.parent1], heap.net[ret.parent2])
        => ret.error = "DimensionMismatch" /\ ret.result = 0

\* the outcomes of a mismatched call that the claim excludes and the code
\* has: a child with an undefined weight, and a child of parent1's shape
\* made from a larger parent2
NoUndefinedWeightReturned ==
    ~(/\ lastOp = "crossover"
      /\ ret.error = "none"
      /\ HasUndefined(heap, heap.net[ret.result]))

NoTruncatedChildReturned ==
    ~(/\ lastOp = "crossover"
      /\ ret.error = "none"
      /\ heap.net[ret.parent2].hiddenSize > heap.net[ret.parent1].hiddenSize
      /\ ~HasUndefined(heap, heap.net[ret.result]))

(* C16: clone() returns a controller of the same three sizes whose weights *)
(* and biases equal the original's cell by cell and whose four arrays are  *)
(* new, held by no other controller; a later mutate on the clone leaves    *)
(* every weight and bias of the original as it was, and a later mutate on  *)
(* the original leaves the clone's.                                        *)
C16_CloneIsIndependent ==
    /\ [](lastOp = "clone" =>
             LET c == heap.net[ret.result]
                 o == heap.net[ret.this]
             IN  /\ SameSizes(c, o)
                 /\ Tensors(heap, c) = Tensors(heap, o)
                 /\ Cardinality(ArrayIds(c)) = 4
                 /\ \A id \in DOMAIN heap.net :
                        id # ret.result => ArrayIds(heap.net[id]) \cap ArrayIds(c) = {})
    /\ [][lastOp' = "mutate" =>
             \A id \in DOMAIN heap.net :
                LET c == heap.net[id]
                IN  c.cloneOf # 0 =>
                       /\ ret'.this = id =>
                              Tensors(heap', heap.net[c.cloneOf])
                                 = Tensors(heap, heap.net[c.cloneOf])
                       /\ ret'.this = c.cloneOf =>
                              Tensors(heap', c) = Tensors(heap, c)]_vars

\* the original of a clone was mutated after the clone was made: they differ
C16_Witness ==
    /\ lastOp = "mutate"
    /\ \E id \in DOMAIN heap.net :
          /\ heap.net[id].cloneOf = ret.this
          /\ Tensors(heap, heap.net[id]) # Tensors(heap, heap.net[ret.this])

(* C17: fromJSON(toJSON(c)), directly and through the JSON text that       *)
(* saving and loading put in between, is a controller of c's three sizes   *)
(* whose weight matrices and bias vectors equal c's cell by cell, and its  *)
(* predict output equals c's on every input vector.                        *)
C17_JSONRoundTrip ==
    lastOp \in {"fromJSON(toJSON)", "fromJSON(parse(stringify(toJSON)))"} =>
        LET c == heap.net[ret.this]
            r == heap.net[ret.result]
        IN  /\ SameSizes(r, c)
            /\ Tensors(heap, r) = Tensors(heap, c)
            /\ \A inputs \in Inputs(c) : Predict(heap, r, inputs) = Predict(heap, c, inputs)

\* a network with a mutated cell came back from the JSON text in new arrays
C17_Witness ==
    /\ lastOp = "fromJSON(parse(stringify(toJSON)))"
    /\ ArrayIds(heap.net[ret.result]) \cap ArrayIds(heap.net[ret.this]) = {}
    /\ \E i \in DOMAIN heap.arr[heap.net[ret.this].biasOutput] :
          heap.arr[heap.net[ret.this].biasOutput][i] = 2
    /\ heap.net[ret.this].hiddenSize # heap.net[ret.this].outputSize

(* C15: when evolve is called with an empty population (Game.update calls  *)
(* it as soon as every car of the population is dead, which holds of an    *)
(* empty one), selection rejects the call through an explicit              *)
(* empty-population check, and the engine is left as it was.               *)
C15_EmptyPopulationRejected ==
    [][cars = <<>> /\ lastOp' \in {"evolve", "evolve: TypeError",
                                    "evolve: EmptyPopulationError"}
       => lastOp' = "evolve: EmptyPopulationError" /\ ga' = ga]_vars

\* getCurrentMutationRate() * (0.5 + i / populationSize), in percent
StrengthAt(i) ==
    LET r == GetCurrentMutationRate(ga)
    IN  Rat(r.n * (ga.populationSize + 2 * i), r.d * 2 * ga.populationSize)

\* what C18 says of a population createPopulation has returned, the order of
\* the mutation rates apart
PopulationAsCreated ==
    /\ Len(cars) = ga.populationSize
    /\ \A i \in DOMAIN cars : cars[i].alive /\ cars[i].fitness = 0
    /\ \A i, j \in DOMAIN cars :
          i # j => cars[i].id # cars[j].id /\ cars[i].brain.ref # cars[j].brain.ref
    /\ \A i \in DOMAIN cars : cars[i].brain.ref \notin BrainRefs(ga)
    /\ IF ga.allTimeBestBrain # Null
       THEN /\ \A i \in DOMAIN cars :
                  IF i = 1
                  THEN /\ cars[i].brain.w = ga.allTimeBestBrain.w
                       /\ cars[i].brain.mutated = <<>>
                  ELSE /\ Len(cars[i].brain.mutated) = 1
                       /\ RatEq(cars[i].brain.mutated[1], StrengthAt(i - 1))
       ELSE \A i \in DOMAIN cars : cars[i].brain.mutated = <<>>

\* createPopulation returns agents the population did not hold and leaves
\* the engine as it was
CreatesNewAgents ==
    [][lastOp' = "createPopulation" =>
          /\ ga' = ga
          /\ \A i \in DOMAIN cars' : \A j \in DOMAIN cars :
                 cars'[i].id # cars[j].id /\ cars'[i].brain.ref # cars[j].brain.ref]_vars

(* C18, as stated: createPopulation returns exactly populationSize new     *)
(* agents and changes no engine state; with an all-time-best controller    *)
(* every agent's controller is an independent clone of it, agent 0         *)
(* unmutated and agent i > 0 mutated once at rate getCurrentMutationRate() *)
(* * (0.5 + i / populationSize), and that rate strictly increases with i;  *)
(* without one every agent gets a new randomized controller.               *)
C18_MutationStrictlyIncreasing ==
    /\ [](lastOp = "createPopulation" =>
             /\ PopulationAsCreated
             /\ ga.allTimeBestBrain # Null =>
                    \A i, j \in 2..Len(cars) :
                        i < j => RatLess(cars[i].brain.mutated[1],
                                         cars[j].brain.mutated[1]))
    /\ CreatesNewAgents

(* C18, amended: as stated, except that the rate of agent i never          *)
(* decreases with i and strictly increases with i when                     *)
(* getCurrentMutationRate() is positive.                                   *)
C18_MutationIncreasing ==
    /\ [](lastOp = "createPopulation" =>
             /\ PopulationAsCreated
             /\ ga.allTimeBestBrain # Null =>
                    \A i, j \in 2..Len(cars) :
                        i < j => IF GetCurrentMutationRate(ga).n > 0
                                 THEN RatLess(cars[i].brain.mutated[1],
                                              cars[j].brain.mutated[1])
                                 ELSE RatEq(cars[i].brain.mutated[1],
                                            cars[j].brain.mutated[1]))
    /\ CreatesNewAgents

\* a population of three seeded from the all-time-best controller under a
\* positive rate, the last agent's weights changed by its mutation
C18_Witness ==
    /\ lastOp = "createPopulation"
    /\ ga.allTimeBestBrain # Null
    /\ Len(cars) = 3
    /\ GetCurrentMutationRate(ga).n > 0
    /\ cars[3].brain.w # ga.allTimeBestBrain.w
    /\ RatLess(cars[2].brain.mutated[1], cars[3].brain.mutated[1])

(* C19: reset() turns every reachable engine into the engine the           *)
(* constructor gives for the same populationSize (generation 1, best       *)
(* fitness 0, best laps 0, best lap time infinite, no best and no          *)
(* all-time-best controller, stagnation counter 0, last-best fitness 0,    *)
(* diversity 0, empty novelty archive), Game.reset leaves such an engine,  *)
(* and no step other than a reset lowers the generation counter or the     *)
(* best-fitness record.                                                    *)
C19_ResetRestoresFreshEngine ==
    /\ [](ResetGA(ga) = NewGA(ga.populationSize))
    /\ [][lastOp' = "reset" => ga' = NewGA(ga'.populationSize)]_vars
    /\ [][ga'.generation < ga.generation \/ ga'.bestFitness < ga.bestFitness
             => EngineRestarted]_vars

\* a reset of an engine in its third generation with a non-empty archive
C19_Witness ==
    /\ lastOp = "reset"
    /\ ret.generation = 3
    /\ ret.archived > 0
    /\ ga.generation = 1
    /\ ga.noveltyArchive = <<>>

(* C20: loading the model.json that saveModel has just written restores    *)
(* every persisted field of the engine to the value it had when it was     *)
(* saved: the generation number, best fitness, best laps, best lap time,   *)
(* and an all-time-best controller of the saved sizes and contents.        *)
C20_LoadRestoresSaved ==
    [][lastOp = "saveModel" /\ lastOp' = "loadModel" =>
          /\ ga'.generation = ga.generation
          /\ ga'.bestFitness = ga.bestFitness
          /\ ga'.bestLaps = ga.bestLaps
          /\ ga'.bestLapTime = ga.bestLapTime
          /\ ga'.allTimeBestBrain # Null
          /\ ga'.allTimeBestBrain.w = BrainToSave(ga).w]_vars

\* what loadModel does restore: every persisted field but the generation
LoadRestoresRecords ==
    [][lastOp = "saveModel" /\ lastOp' = "loadModel" =>
          /\ ga'.bestFitness = ga.bestFitness
          /\ ga'.bestLaps = ga.bestLaps
          /\ ga'.bestLapTime = ga.bestLapTime
          /\ ga'.allTimeBestBrain # Null
          /\ ga'.allTimeBestBrain.w = BrainToSave(ga).w
          /\ cfg' = cfg]_vars

(* C21: in every reachable state of the game every car's controller has    *)
(* inputSize equal to the car's sensor count + 3 and hiddenSize equal to   *)
(* the configured hidden size: a seed of another shape is discarded after  *)
(* applying a configuration, resetting it to defaults or loading a model.  *)
C21_ControllersMatchConfig ==
    \A i \in DOMAIN cars :
        /\ cars[i].brain.inputSize = cars[i].sensorCount + 3
        /\ cars[i].brain.hiddenSize = cfg.network.hiddenSize

\* the sizes of a car's brain fit the car's own sensors
BrainFitsSensors ==
    \A i \in DOMAIN cars : cars[i].brain.inputSize = cars[i].sensorCount + 3

\* the population loadModel creates has the configured shape
LoadedModelMatchesConfig ==
    lastOp = "loadModel" => C21_ControllersMatchConfig

\* the ids of the cars of a population
Ids(cs) == {cs[i].id : i \in DOMAIN cs}

(* C22: evolve is a strict barrier of the game loop.  The generation       *)
(* counter advances only in an update at whose end every car of the        *)
(* current population is dead, which is the update in which the last       *)
(* living car died; and an update that leaves every car dead does not end  *)
(* without evolve.                                                         *)
C22_EvolveIsBarrier ==
    /\ [][ga'.generation > ga.generation =>
             /\ lastOp' = "evolve"
             /\ Ids(sorted') = Ids(cars)
             /\ \A i \in DOMAIN sorted' : ~sorted'[i].alive
             /\ \E i \in DOMAIN cars : cars[i].alive]_vars
    /\ [](lastOp = "update" => \E i \in DOMAIN cars : cars[i].alive)

\* evolve has run on a whole population of dead cars that ended differently
C22_Witness ==
    /\ lastOp = "evolve"
    /\ ga.generation = 2
    /\ Len(sorted) = MaxPop
    /\ \A i \in DOMAIN sorted : ~sorted[i].alive
    /\ \E i, j \in DOMAIN sorted : sorted[i].fitness # sorted[j].fitness

(* C23: with novelty search enabled one selection call offers only the     *)
(* top-ranked car's behavior to the archive, which so gains at most one    *)
(* entry, and the novelty of every car of the call is computed against     *)
(* the archive as it stood before the call; with novelty search disabled   *)
(* selection leaves the archive unchanged.                                 *)
C23_OnlyWinnerOffered ==
    [][lastOp' = "selection" =>
          IF cfg.novelty.enabled
          THEN /\ Len(ga'.noveltyArchive) <= Len(ga.noveltyArchive) + 1
               /\ \A i \in DOMAIN sorted' :
                     sorted'[i].novelty =
                         CalculateNovelty(ga.noveltyArchive, GetBehaviorDescriptor(sorted'[i]))
               /\ ga'.noveltyArchive =
                     MaybeAdd(ga.noveltyArchive, GetBehaviorDescriptor(sorted'[1]),
                              sorted'[1].novelty)
          ELSE ga'.noveltyArchive = ga.noveltyArchive]_vars

\* the last part of C23 alone: selection without novelty search leaves the
\* archive as it is
SelectionWithoutNoveltyKeepsArchive ==
    [][lastOp' = "selection" /\ ~cfg.novelty.enabled =>
          ga'.noveltyArchive = ga.noveltyArchive]_vars

\* every car's novelty is computed against the archive of before the call
NoveltyAgainstArchiveBefore ==
    [][lastOp' = "selection" /\ cfg.novelty.enabled =>
          \A i \in DOMAIN sorted' :
              sorted'[i].novelty =
                  CalculateNovelty(ga.noveltyArchive, GetBehaviorDescriptor(sorted'[i]))]_vars

\* the cars evolve has built by its fill loop
Children == {i \in DOMAIN cars : i > Min(cfg.genetic.elitism, Len(elite))}

(* C24: during evolve a child can receive the second, strong mutation pass *)
(* (rate 0.5) only if the stagnation counter, as the selection of that     *)
(* evolve call left it, is greater than twice the stagnation threshold;    *)
(* when it is at most twice the threshold every child is mutated exactly   *)
(* once, at the current mutation rate.                                     *)
C24_HypermutationOnlyWhenStagnant ==
    lastOp = "evolve" =>
        /\ \A i \in Children :
              Len(cars[i].brain.mutated) = 2 =>
                  /\ ga.stagnationCounter > 2 * cfg.adaptive.stagnationThreshold
                  /\ cars[i].brain.mutated[2] = Rat(HyperRate, 1)
        /\ \A i \in Children :
              /\ Len(cars[i].brain.mutated) \in 1..2
              /\ cars[i].brain.mutated[1] = ret.mutationRate
        /\ ga.stagnationCounter <= 2 * cfg.adaptive.stagnationThreshold =>
              \A i \in Children : cars[i].brain.mutated = <<ret.mutationRate>>
        /\ \A i \in DOMAIN cars \ Children : cars[i].brain.mutated = <<>>

\* a child has received the second pass, under adaptive mutation
C24_Witness ==
    /\ lastOp = "evolve"
    /\ cfg.adaptive.enabled
    /\ \E i \in Children : Len(cars[i].brain.mutated) = 2

\* the rates the brains of the current cars were mutated with
RatesPassed == UNION {{cars[i].brain.mutated[k] : k \in DOMAIN cars[i].brain.mutated} :
                         i \in DOMAIN cars}

(* C25: every mutation rate the engine passes to mutate, in                *)
(* createPopulation for every index and in evolve for every child, lies    *)
(* in [0, 0.8].                                                            *)
C25_MutationRatesWithinCap ==
    \A r \in RatesPassed : ~RatLess(r, Rat(0, 1)) /\ ~RatLess(Rat(RateCap, 1), r)

\* the part of C25 about evolve
EvolveRatesWithinCap ==
    lastOp = "evolve" => C25_MutationRatesWithinCap

\* car i of cs has another car of cs closer than sigma
HasNeighbour(cs, i) ==
    \E j \in DOMAIN cs : j # i /\ BehaviorDistance(cs[i], cs[j]) < cfg.sharing.sigma

(* C26: with fitness sharing enabled sharing only penalizes: after         *)
(* selection every car's sharedFitness is at most its fitness, equal to it *)
(* exactly when no other car lies within sigma, and a car with neighbours  *)
(* within sigma never ranks above a car of equal raw fitness that has      *)
(* none; with sharing disabled no car's sharedFitness is changed.          *)
C26_SharingOnlyPenalizes ==
    [][lastOp' = "selection" =>
          IF cfg.sharing.enabled
          THEN /\ \A i \in DOMAIN cars' :
                     /\ ~RatLess(Rat(cars'[i].fitness, 1), cars'[i].sharedFitness)
                     /\ RatEq(cars'[i].sharedFitness, Rat(cars'[i].fitness, 1))
                            <=> ~HasNeighbour(cars', i)
               /\ \A i, j \in DOMAIN cars' :
                     /\ cars'[i].fitness = cars'[j].fitness
                     /\ HasNeighbour(cars', i)
                     /\ ~HasNeighbour(cars', j)
                     => Pos(sorted', cars'[j].id) < Pos(sorted', cars'[i].id)
          ELSE \A i \in DOMAIN cars' : cars'[i].sharedFitness = cars[i].sharedFitness]_vars

\* C26 for the cars whose fitness is positive
SharingPenalizesPositiveFitness ==
    [][lastOp' = "selection" /\ cfg.sharing.enabled /\ ~cfg.novelty.enabled =>
          /\ \A i \in DOMAIN cars' :
                cars'[i].fitness > 0 =>
                    /\ ~RatLess(Rat(cars'[i].fitness, 1), cars'[i].sharedFitness)
                    /\ RatEq(cars'[i].sharedFitness, Rat(cars'[i].fitness, 1))
                           <=> ~HasNeighbour(cars', i)
          /\ \A i, j \in DOMAIN cars' :
                /\ cars'[i].fitness = cars'[j].fitness
                /\ cars'[i].fitness > 0
                /\ HasNeighbour(cars', i)
                /\ ~HasNeighbour(cars', j)
                => Pos(sorted', cars'[j].id) < Pos(sorted', cars'[i].id)]_vars

\* the first part of C26 alone: sharing never raises a car's score
SharingNeverRaises ==
    [][lastOp' = "selection" /\ cfg.sharing.enabled =>
          \A i \in DOMAIN cars' :
              ~RatLess(Rat(cars'[i].fitness, 1), cars'[i].sharedFitness)]_vars

(* C27: at any time at most one animation-frame callback of the training   *)
(* loop is pending, so that a displayed frame makes exactly `speed` update *)
(* calls while the game is running and none while it is paused.            *)
C27_OneLoopChain ==
    /\ [](game.pending <= 1)
    /\ [][lastOp' = "frame" =>
             ret'.updates = IF game.running THEN game.speed ELSE 0]_vars

\* a frame displayed while the game is paused makes no update call
PausedFrameMakesNoUpdate ==
    [][lastOp' = "frame" /\ ~game.running => ret'.updates = 0 /\ game'.pending = 0]_vars

(* C28: a controller built by fromJSON shares no weight or bias array with *)
(* the record it was built from, and a record returned by toJSON shares    *)
(* none with its controller: after nn2 = fromJSON(nn1.toJSON()) the two    *)
(* have no array in common, mutating nn1 does not change nn2's arrays and  *)
(* mutating nn2 does not change nn1's.                                     *)
C28_FromJSONSharesNothing ==
    /\ [](lastOp = "fromJSON(toJSON)" =>
             ArrayIds(heap.net[ret.result]) \cap ArrayIds(heap.net[ret.this]) = {})
    /\ [][lastOp = "fromJSON(toJSON)" /\ lastOp' = "mutate" =>
             LET nn1 == heap.net[ret.this]
                 nn2 == heap.net[ret.result]
             IN  /\ ret'.this = ret.this => Tensors(heap', nn2) = Tensors(heap, nn2)
                 /\ ret'.this = ret.result => Tensors(heap', nn1) = Tensors(heap, nn1)]_vars

\* through the JSON text the two controllers have no array in common
ParsedRecordSharesNothing ==
    /\ [](lastOp = "fromJSON(parse(stringify(toJSON)))" =>
             ArrayIds(heap.net[ret.result]) \cap ArrayIds(heap.net[ret.this]) = {})
    /\ [][lastOp = "fromJSON(parse(stringify(toJSON)))" /\ lastOp' = "mutate" =>
             LET nn1 == heap.net[ret.this]
                 nn2 == heap.net[ret.result]
             IN  /\ ret'.this = ret.this => Tensors(heap', nn2) = Tensors(heap, nn2)
                 /\ ret'.this = ret.result => Tensors(heap', nn1) = Tensors(heap, nn1)]_vars

\* mutating nn1 after nn2 = fromJSON(nn1.toJSON()) leaves nn2's arrays alone
MutatingSourceKeepsBuilt ==
    [][lastOp = "fromJSON(toJSON)" /\ lastOp' = "mutate" /\ ret'.this = ret.this =>
          Tensors(heap', heap.net[ret.result]) = Tensors(heap, heap.net[ret.result])]_vars

\* the set of the unlocked tracks
Unlocked(g) == {g.unlockedTracks[k] : k \in DOMAIN g.unlockedTracks}

\* the cars as the update call just made left them, before evolve if it ran
CarsUpdated == IF lastOp = "evolve" THEN sorted ELSE cars

(* C29: in every reachable state of the game the unlocked tracks are       *)
(* {1..k} for a k from 1 to 4 and never shrink, the current track is       *)
(* unlocked, track n+1 becomes unlocked only in an update in which a car   *)
(* has a lap while n is the current track, and lapCompleted implies that   *)
(* the current track is the fourth or that the next one is unlocked.       *)
C29_TrackProgression ==
    /\ [](/\ \E k \in 1..4 : Unlocked(game) = 1..k
          /\ game.currentTrackNumber \in Unlocked(game)
          /\ game.lapCompleted =>
                \/ game.currentTrackNumber = 4
                \/ game.currentTrackNumber + 1 \in Unlocked(game))
    /\ [][/\ Unlocked(game) \subseteq Unlocked(game')
          /\ Unlocked(game') # Unlocked(game) =>
                /\ Unlocked(game') = Unlocked(game) \cup {game.currentTrackNumber + 1}
                /\ game'.currentTrackNumber = game.currentTrackNumber
                /\ lastOp' \in {"update", "evolve"}
                /\ \E i \in DOMAIN CarsUpdated' : CarsUpdated'[i].laps > 0]_vars

\* the fourth track is current and every track is unlocked
C29_Witness ==
    /\ game.currentTrackNumber = 4
    /\ Unlocked(game) = 1..4
    /\ game.lapCompleted

(* C30: under any sequence of update calls on a fixed non-empty list of T  *)
(* checkpoints, an update of a dead car changes none of its fields, after  *)
(* every update 0 <= checkpointIndex < T and checkpointsPassed =           *)
(* laps * T + checkpointIndex, and laps <= 1: the car is dead at the end   *)
(* of the update in which it completes a lap.                              *)
C30_CarCounters ==
    /\ [](/\ cars[1].checkpointIndex \in 0..(game.checkpoints - 1)
          /\ cars[1].checkpointsPassed
                = cars[1].laps * game.checkpoints + cars[1].checkpointIndex
          /\ cars[1].laps <= 1
          /\ cars[1].laps = 1 => ~cars[1].alive)
    /\ [][lastOp' = "car.update" /\ ~cars[1].alive => cars' = cars]_vars

\* a car has died of its completed lap on the longest list, another of
\* being stuck
C30_Witness ==
    /\ lastOp = "car.update"
    /\ ~cars[1].alive
    /\ \/ cars[1].laps = 1 /\ game.checkpoints = MaxCheckpoints /\ ~ret.wasAlive
       \/ cars[1].stuckCounter > StuckLimit /\ ~ret.wasAlive

====
